---- MODULE Spec2Model ----
(***************************************************************************)
(* The four scripts of portfolio-aws-org-macie:                            *)
(*   src/discovery/state_sync.py              (Spec, SpecRerun)            *)
(*   src/post-deployment/verify-macie.py      (SpecVerify)                 *)
(*   src/discovery/discover.py                (SpecDiscover, ...Rerun)     *)
(*   src/post-deployment/enroll-macie-members.py  (SpecEnroll)             *)
(* and the log relay src/discovery/cloudwatch_logger.py (SpecLogger).      *)
(* A behaviour runs one script, prog; pc is the position in that script,   *)
(* dry_run its mode, exit its status, and every external call the run      *)
(* makes is appended to trace.                                             *)
(*                                                                         *)
(* For state_sync the world is the Terraform state (store), the discovery  *)
(* artifact bootstrap.auto.tfvars.json (tfvars), the config file (config)  *)
(* and the live cloud configuration (live); last is what the terraform     *)
(* command of the step just taken did ("" when the step ran none).         *)
(***************************************************************************)
EXTENDS Integers, Sequences, FiniteSets, TLC

VARIABLES prog, store, tfvars, config, live,
          run, pc, dry_run, state_resources, outcome, trace, imp, last, exit, prev,
          issues, warnings, audit_session,
          config_yaml, discovery, files, printed,
          accounts, members, existing_members, needs_enrollment,
          argv, batch, batch_bytes, last_flush, current_stream, now, reply

vars == <<prog, store, tfvars, config, live,
          run, pc, dry_run, state_resources, outcome, trace, imp, last, exit, prev,
          issues, warnings, audit_session,
          config_yaml, discovery, files, printed,
          accounts, members, existing_members, needs_enrollment,
          argv, batch, batch_bytes, last_flush, current_stream, now, reply>>

\* The variables of verify-macie.py, beside pc, dry_run, trace and exit.
verifyVars == <<issues, warnings, audit_session>>

\* The variables of discover.py, beside run, pc, dry_run, live, trace and exit.
discoverVars == <<config_yaml, discovery, files, printed>>

\* The organization enroll-macie-members.py runs on, and the two collections
\* its main() builds.
enrollVars == <<accounts, members, existing_members, needs_enrollment>>

\* The variables of cloudwatch_logger.py, beside pc, trace and exit: its
\* command line, the locals of main(), the clock time.time() reads (in
\* seconds), and what the CloudWatch calls of the step just taken answered.
loggerVars == <<argv, batch, batch_bytes, last_flush, current_stream, now, reply>>

\* What no step of state_sync changes: the script that was started, its input
\* files, and the variables of the other scripts.
world == <<prog, tfvars, config, verifyVars, discoverVars, enrollVars, loggerVars>>

\* What only state_sync changes.
syncVars == <<store, state_resources, outcome, imp, last, prev>>

\* What no step of verify-macie.py changes.
verifyFrame == <<prog, tfvars, config, live, run, syncVars, discoverVars, enrollVars,
                 loggerVars>>

\* What no step of discover.py changes.
discoverFrame == <<prog, tfvars, config, config_yaml, syncVars, verifyVars, enrollVars,
                   loggerVars>>

\* What no step of enroll-macie-members.py changes.
enrollFrame == <<prog, tfvars, config, live, run, syncVars, verifyVars, discoverVars,
                 accounts, members, loggerVars>>

\* What no step of cloudwatch_logger.py changes.
loggerFrame == <<prog, tfvars, config, live, run, dry_run, syncVars, verifyVars,
                 discoverVars, enrollVars, argv>>

-----------------------------------------------------------------------------
(* Bounds *)

\* Number of runs of the script in one behaviour.
MaxRuns == 2

\* Largest number of addresses in the Terraform state before the first run.
MaxInitTracked == 1

-----------------------------------------------------------------------------
(* Program constants *)

IMPORT_RETRIES == 2
IMPORT_RETRY_DELAY == 5

LogGroupAddress == "aws_cloudwatch_log_group.deployments"
ManagementAddress == "module.macie_org[0].aws_macie2_account.management"
OrgAdminAddress == "module.macie_org[0].aws_macie2_organization_admin_account.main"
AuditAddress == "module.macie_config[0].aws_macie2_account.audit"

\* An address of the same Terraform state that state_sync does not manage.
UnmanagedAddress == "module.macie_config[0].aws_macie2_classification_export_configuration.main"

Kinds == {"log_group", "management", "org_admin", "audit"}

tf_address(kind) ==
    CASE kind = "log_group" -> LogGroupAddress
      [] kind = "management" -> ManagementAddress
      [] kind = "org_admin" -> OrgAdminAddress
      [] kind = "audit" -> AuditAddress

Addresses == {tf_address(k) : k \in Kinds} \cup {UnmanagedAddress}

\* main() calls the four sync functions in this order, then prints the summary.
NextPc(kind) ==
    CASE kind = "log_group" -> "management"
      [] kind = "management" -> "org_admin"
      [] kind = "org_admin" -> "audit"
      [] kind = "audit" -> "summary"

-----------------------------------------------------------------------------
(* Inputs *)

ManagementAccountId == "111111111111"
AuditAccountId == "222222222222"
OtherAccountId == "333333333333"

\* bootstrap.auto.tfvars.json: absent, not parseable, or a JSON object.
TfvarsFiles ==
    {[file |-> f, resource_prefix |-> "", deployment_name |-> "",
      management_account_id |-> "", audit_account_id |-> ""] :
        f \in {"absent", "malformed"}}
    \cup
    [file : {"ok"}, resource_prefix : {"", "acme"}, deployment_name : {"", "prod"},
     management_account_id : {ManagementAccountId}, audit_account_id : {"", AuditAccountId}]

\* What subprocess.run of a terraform command can do.
ProcessResults == {"exit0", "already_managed", "error", "timeout", "exception"}

\* get_macie_session: a status, or a ClientError, or an exception that is
\* not a ClientError (no credentials, endpoint unreachable).
MacieResponses == {"ENABLED", "PAUSED", "NotEnabledError", "ClientError", "OtherException"}

\* list_delegated_administrators: the set of delegated administrators, or a failure.
DelegatedResponses ==
    {"Admins_none", "Admins_audit", "Admins_other", "ClientError", "OtherException"}

\* sts.assume_role
StsResponses == {"Credentials", "ClientError", "OtherException"}

Unknown == "unknown"

-----------------------------------------------------------------------------
(* Pure functions of state_sync.py *)

\* run_terraform_cmd: (success, output); the output is kept as the text that
\* decides the caller's branch.
run_terraform_cmd_timeoutIgnored(result) ==
    IF result = "already_managed"
    THEN [success |-> FALSE, output |-> "Error: Resource already managed by Terraform"]
    ELSE [success |-> result \in {"exit0", "timeout"}, output |-> ""]

run_terraform_cmd(result) ==
    CASE result = "exit0" -> [success |-> TRUE, output |-> ""]
      [] result = "already_managed" ->
            [success |-> FALSE, output |-> "Error: Resource already managed by Terraform"]
      [] result = "error" -> [success |-> FALSE, output |-> "Error: acquiring the state lock"]
      [] result = "timeout" -> [success |-> FALSE, output |-> "Command timed out"]
      [] result = "exception" -> [success |-> FALSE, output |-> "No such file or directory"]

get_state_resources_unchecked(result, listed) == listed

\* get_state_resources: the listed addresses on success, else the empty set.
get_state_resources(result, listed) ==
    IF run_terraform_cmd(result).success THEN listed ELSE {}

resource_exists_in_state_always(address, resources) == TRUE

resource_exists_in_state_never(address, resources) == FALSE

resource_exists_in_state(address, resources) == address \in resources

Succeeded_never(r) == FALSE

\* if success: return True
Succeeded(r) == r.success

AlreadyManaged_never(output) == FALSE

\* "Resource already managed" in output
AlreadyManaged(output) == output = "Error: Resource already managed by Terraform"

MayRetry_always(attempt) == attempt <= IMPORT_RETRIES

\* if attempt < IMPORT_RETRIES: sleep before the next attempt
MayRetry(attempt) == attempt < IMPORT_RETRIES

\* for attempt in range(1, IMPORT_RETRIES + 1)
InRange(attempt) == attempt <= IMPORT_RETRIES

\* The ids of the file, or empty ids when it is absent or cannot be parsed.
get_account_ids_from_tfvars(file) ==
    IF file.file = "ok"
    THEN [management |-> file.management_account_id, audit |-> file.audit_account_id]
    ELSE [management |-> "", audit |-> ""]

AuditMissing_never(account_ids) == FALSE

\* if not account_ids["audit"]
AuditMissing(account_ids) == account_ids.audit = ""

ShouldWarmUp_anyState(resources, dry) == ~dry

ShouldWarmUp_anyMode(resources, dry) == Cardinality(resources) = 0

\* if len(state_resources) == 0 and not dry_run
ShouldWarmUp(resources, dry) == Cardinality(resources) = 0 /\ ~dry

log_group_name(file) ==
    "/" \o file.resource_prefix \o "/deployments/" \o file.deployment_name

\* The identifier each sync function passes to import_resource.
import_id(kind, file) ==
    CASE kind = "log_group" -> log_group_name(file)
      [] kind = "management" -> "macie"
      [] kind = "org_admin" -> get_account_ids_from_tfvars(file).audit
      [] kind = "audit" -> "macie"

MacieProbe_errorAlarm(response) ==
    CASE response = "ENABLED" -> "Found"
      [] response = "PAUSED" -> "NotFound"
      [] response = "NotEnabledError" -> "ProbeError"
      [] response = "ClientError" -> "ProbeError"
      [] response = "OtherException" -> "Raise"

\* The branches of the try/except around get_macie_session.
MacieProbe(response) ==
    CASE response = "ENABLED" -> "Found"
      [] response = "PAUSED" -> "NotFound"
      [] response = "NotEnabledError" -> "NotFound"
      [] response = "ClientError" -> "ProbeError"
      [] response = "OtherException" -> "Raise"

\* response.get("DelegatedAdministrators", []), as the account ids in it
DelegatedAdmins(response) ==
    CASE response = "Admins_audit" -> {AuditAccountId}
      [] response = "Admins_other" -> {OtherAccountId}
      [] OTHER -> {}

\* The branches of the try/except around list_delegated_administrators.
DelegatedProbe(response, audit_account_id) ==
    CASE response = "ClientError" -> "ProbeError"
      [] response = "OtherException" -> "Raise"
      [] OTHER -> IF audit_account_id \in DelegatedAdmins(response)
                  THEN "Found" ELSE "NotFound"

get_cross_account_session_raises(response) ==
    CASE response = "Credentials" -> "Session"
      [] response = "ClientError" -> "Raise"
      [] response = "OtherException" -> "Raise"

\* get_cross_account_session: a session, None on ClientError, else the exception.
get_cross_account_session(response) ==
    CASE response = "Credentials" -> "Session"
      [] response = "ClientError" -> "None"
      [] response = "OtherException" -> "Raise"

\* What a sync function reports after import_resource returns.
ImportOutcome(returned, dry) ==
    IF returned THEN (IF dry THEN "WouldImport" ELSE "Imported") ELSE "ImportFailed"

WouldImportReport_noId(address, resource_id) == <<address, address>>

\* DRY RUN: Would import {address} with ID {resource_id}
WouldImportReport(address, resource_id) == <<address, resource_id>>

\* terraform import -input=false address resource_id
ImportArgs(address, resource_id) == <<address, resource_id>>

-----------------------------------------------------------------------------
(* Trace of external calls *)

Event(op, kind, pair, res, secs) ==
    [op |-> op, kind |-> kind, address |-> pair[1], id |-> pair[2], res |-> res, secs |-> secs]

NoPair == <<"", "">>

Indices(op, kind) == {i \in 1..Len(trace) : trace[i].op = op /\ trace[i].kind = kind}

OpIndices(op) == {i \in 1..Len(trace) : trace[i].op = op}

\* (address, identifier) pairs of the events op of a trace
Pairs(t, op) == {<<t[i].address, t[i].id>> : i \in {j \in 1..Len(t) : t[j].op = op}}

NoImp == [kind |-> "", address |-> "", id |-> "", attempt |-> 0]

NoPrev == [finished |-> "none", dry_run |-> FALSE, state_resources |-> {},
           would |-> {}, imported |-> {}]

\* The pairs whose import_resource call returned True in a run that was not a dry run.
ImportedPairs == {<<tf_address(k), import_id(k, tfvars)>> : k \in {j \in Kinds : outcome[j] = "Imported"}}

\* What the next run keeps of a finished run: of a dry run its TrackedSet and
\* its would-import reports, of another run the pairs it imported.
Summary ==
    [finished |-> pc, dry_run |-> dry_run,
     state_resources |-> IF dry_run THEN state_resources ELSE {},
     would |-> Pairs(trace, "would_import"),
     imported |-> ImportedPairs]

-----------------------------------------------------------------------------
(* Initial state *)

\* discover.py's result dict before discover_macie_org_config has filled it.
NoDiscovery ==
    [macie_org_exists |-> FALSE, macie_delegated_admin |-> "",
     macie_auto_enable |-> FALSE, macie_automated_discovery |-> FALSE]

\* discovery.json and bootstrap.auto.tfvars.json not written (not printed).
NoFiles == [discovery_json |-> "absent", tfvars_json |-> "absent"]

NoYaml == [resource_prefix |-> "", primary_region |-> "", audit_account_id |-> "",
           deployment_name |-> "", tags |-> ""]

\* The scripts' variables before any script has run.
NotRun ==
    /\ run = 0
    /\ pc = "idle"
    /\ dry_run = FALSE
    /\ state_resources = {}
    /\ outcome = [k \in Kinds |-> "pending"]
    /\ trace = <<>>
    /\ imp = NoImp
    /\ last = ""
    /\ exit = -1
    /\ prev = NoPrev
    /\ issues = <<>>
    /\ warnings = <<>>
    /\ audit_session = "unset"
    /\ discovery = NoDiscovery
    /\ files = NoFiles
    /\ printed = NoFiles
    /\ existing_members = <<>>
    /\ needs_enrollment = <<>>
    /\ batch = <<>>
    /\ batch_bytes = 0
    /\ last_flush = 0
    /\ current_stream = ""
    /\ now = 0
    /\ reply = <<>>

\* No organization and no config.yaml contents: the script run is not one
\* that reads them.
NotRead ==
    /\ config_yaml = NoYaml
    /\ accounts = {}
    /\ members = <<>>
    /\ argv = <<>>

LiveUnknown ==
    [management |-> Unknown, delegated |-> Unknown, sts |-> Unknown, audit |-> Unknown]

Init ==
    /\ prog = "state_sync"
    /\ store \in {s \in SUBSET Addresses : Cardinality(s) <= MaxInitTracked}
    /\ tfvars \in TfvarsFiles
    /\ config \in {"ok", "missing"}
    /\ live = LiveUnknown
    /\ NotRun
    /\ NotRead

-----------------------------------------------------------------------------
(* Steps of a run *)

\* An uncaught exception ends the process with a traceback and status 1.
Crash(t) ==
    /\ pc' = "crashed"
    /\ exit' = 1
    /\ trace' = t
    /\ UNCHANGED <<outcome, imp>>

\* A sync function returns without calling import_resource.
Return(kind, result, t) ==
    /\ outcome' = [outcome EXCEPT ![kind] = result]
    /\ pc' = NextPc(kind)
    /\ trace' = t
    /\ UNCHANGED <<imp, exit>>

\* import_resource is entered: the dry-run branch returns True at once.
CallImport(kind, address, resource_id, t) ==
    IF dry_run
    THEN /\ trace' = Append(t, Event("would_import", kind,
                                     WouldImportReport(address, resource_id), "", 0))
         /\ outcome' = [outcome EXCEPT ![kind] = ImportOutcome(TRUE, dry_run)]
         /\ pc' = NextPc(kind)
         /\ UNCHANGED <<imp, exit>>
    ELSE /\ trace' = t
         /\ imp' = [kind |-> kind, address |-> address, id |-> resource_id, attempt |-> 1]
         /\ pc' = "import"
         /\ UNCHANGED <<outcome, exit>>

\* The live configuration answers a query; it answers the same way in every run.
Answer(field, responses, r) ==
    /\ r \in responses
    /\ live[field] \in {Unknown, r}
    /\ live' = [live EXCEPT ![field] = r]

\* main() up to the config file: parse_args, then open and parse the config;
\* a config file that is missing raises out of main().
Begin ==
    /\ run' = run + 1
    /\ \E d \in BOOLEAN : dry_run' = d
    /\ state_resources' = {}
    /\ outcome' = [k \in Kinds |-> "pending"]
    /\ trace' = <<>>
    /\ imp' = NoImp
    /\ last' = ""
    /\ IF config = "missing"
       THEN pc' = "crashed" /\ exit' = 1
       ELSE pc' = "list" /\ exit' = -1
    /\ UNCHANGED <<store, world, live>>

\* The script is run.
Start ==
    /\ prog = "state_sync"
    /\ pc = "idle"
    /\ prev' = prev
    /\ Begin

\* The script is run again after a run that reached its summary.
Rerun ==
    /\ pc = "done"
    /\ run < MaxRuns
    /\ prev' = Summary
    /\ Begin

\* state_resources = get_state_resources(), then the warm-up decision.
GetStateResources ==
    /\ pc = "list"
    /\ \E result \in ProcessResults \ {"already_managed"} :
          /\ state_resources' = get_state_resources(result, store)
          /\ last' = result
          /\ trace' = Append(trace, Event("state_list", "main", NoPair,
                             IF run_terraform_cmd(result).success THEN "ok" ELSE "fail", 0))
    /\ pc' = IF ShouldWarmUp(state_resources', dry_run) THEN "warmup" ELSE "log_group"
    /\ UNCHANGED <<store, world, live, run, dry_run, outcome, imp, exit, prev>>

\* warm_up_providers(): the result of the plan only changes what is printed.
WarmUp ==
    /\ pc = "warmup"
    /\ \E result \in ProcessResults \ {"already_managed"} :
          /\ trace' = Append(trace, Event("plan", "main", NoPair,
                             IF run_terraform_cmd(result).success THEN "ok" ELSE "fail", 0))
          /\ last' = result
    /\ pc' = "log_group"
    /\ UNCHANGED <<store, world, live, run, dry_run, state_resources, outcome, imp, exit, prev>>

SyncLogGroup ==
    /\ pc = "log_group"
    /\ LET kind == "log_group"
           address == tf_address(kind)
       IN  IF resource_exists_in_state(address, state_resources)
           THEN Return(kind, "AlreadyTracked", trace)
           ELSE IF tfvars.file = "absent"
           THEN Return(kind, "NotApplicable", trace)
           ELSE IF tfvars.file = "malformed"
           THEN Crash(trace)
           ELSE IF tfvars.resource_prefix = "" \/ tfvars.deployment_name = ""
           THEN Return(kind, "NotApplicable", trace)
           ELSE CallImport(kind, address, import_id(kind, tfvars), trace)
    /\ last' = ""
    /\ UNCHANGED <<store, world, live, run, dry_run, state_resources, prev>>

SyncManagement ==
    /\ pc = "management"
    /\ LET kind == "management"
           address == tf_address(kind)
       IN  IF resource_exists_in_state(address, state_resources)
           THEN Return(kind, "AlreadyTracked", trace) /\ UNCHANGED live
           ELSE \E r \in MacieResponses :
                  /\ Answer("management", MacieResponses, r)
                  /\ LET t == Append(trace, Event("get_macie_session", kind, NoPair, r, 0))
                         probe == MacieProbe(r)
                     IN  CASE probe = "Found" -> CallImport(kind, address, import_id(kind, tfvars), t)
                           [] probe = "Raise" -> Crash(t)
                           [] OTHER -> Return(kind, probe, t)
    /\ last' = ""
    /\ UNCHANGED <<store, world, run, dry_run, state_resources, prev>>

SyncOrgAdmin ==
    /\ pc = "org_admin"
    /\ LET kind == "org_admin"
           address == tf_address(kind)
           account_ids == get_account_ids_from_tfvars(tfvars)
       IN  IF AuditMissing(account_ids)
           THEN Return(kind, "NotApplicable", trace) /\ UNCHANGED live
           ELSE IF resource_exists_in_state(address, state_resources)
           THEN Return(kind, "AlreadyTracked", trace) /\ UNCHANGED live
           ELSE \E r \in DelegatedResponses :
                  /\ Answer("delegated", DelegatedResponses, r)
                  /\ LET t == Append(trace, Event("list_delegated_administrators", kind,
                                                  NoPair, r, 0))
                         probe == DelegatedProbe(r, account_ids.audit)
                     IN  CASE probe = "Found" -> CallImport(kind, address, import_id(kind, tfvars), t)
                           [] probe = "Raise" -> Crash(t)
                           [] OTHER -> Return(kind, probe, t)
    /\ last' = ""
    /\ UNCHANGED <<store, world, run, dry_run, state_resources, prev>>

\* sync_macie_audit_account up to the session it asks the broker for.
SyncAudit ==
    /\ pc = "audit"
    /\ LET kind == "audit"
           address == tf_address(kind)
           account_ids == get_account_ids_from_tfvars(tfvars)
       IN  IF AuditMissing(account_ids)
           THEN Return(kind, "NotApplicable", trace) /\ UNCHANGED live
           ELSE IF resource_exists_in_state(address, state_resources)
           THEN Return(kind, "AlreadyTracked", trace) /\ UNCHANGED live
           ELSE \E r \in StsResponses :
                  /\ Answer("sts", StsResponses, r)
                  /\ LET t == Append(trace, Event("assume_role", kind,
                                                  <<"", account_ids.audit>>, r, 0))
                         session == get_cross_account_session(r)
                     IN  CASE session = "Session" ->
                                /\ pc' = "audit_probe"
                                /\ trace' = t
                                /\ UNCHANGED <<outcome, imp, exit>>
                           [] session = "None" -> Return(kind, "BrokerSkip", t)
                           [] session = "Raise" -> Crash(t)
    /\ last' = ""
    /\ UNCHANGED <<store, world, run, dry_run, state_resources, prev>>

\* sync_macie_audit_account with the session: the enablement query.
SyncAuditProbe ==
    /\ pc = "audit_probe"
    /\ LET kind == "audit"
           address == tf_address(kind)
       IN  \E r \in MacieResponses :
              /\ Answer("audit", MacieResponses, r)
              /\ LET t == Append(trace, Event("get_macie_session", kind, NoPair, r, 0))
                     probe == MacieProbe(r)
                 IN  CASE probe = "Found" -> CallImport(kind, address, import_id(kind, tfvars), t)
                       [] probe = "Raise" -> Crash(t)
                       [] OTHER -> Return(kind, probe, t)
    /\ last' = ""
    /\ UNCHANGED <<store, world, run, dry_run, state_resources, prev>>

\* One iteration of the loop of import_resource: the terraform import command
\* and the two tests of its result.  exit0 registers the address; Terraform
\* refuses an address it already manages, and an already-managed refusal of
\* an address the state did not hold means a concurrent run registered it.
ImportAttempt ==
    /\ pc = "import"
    /\ \E result \in ProcessResults :
          LET r == run_terraform_cmd(result)
              returned == Succeeded(r) \/ AlreadyManaged(r.output)
              res == IF r.success THEN "ok"
                     ELSE IF result = "already_managed" THEN "already" ELSE "fail"
          IN  /\ result = "exit0" => imp.address \notin store
              /\ last' = result
              /\ store' = IF result \in {"exit0", "already_managed"}
                          THEN store \cup {imp.address} ELSE store
              /\ trace' = Append(trace, Event("import", imp.kind,
                                              ImportArgs(imp.address, imp.id), res, 0))
              /\ IF returned
                 THEN /\ outcome' = [outcome EXCEPT ![imp.kind] = ImportOutcome(TRUE, dry_run)]
                      /\ pc' = NextPc(imp.kind)
                      /\ imp' = NoImp
                 ELSE IF MayRetry(imp.attempt)
                 THEN /\ pc' = "sleep"
                      /\ UNCHANGED <<outcome, imp>>
                 ELSE IF InRange(imp.attempt + 1)
                 THEN /\ pc' = "import"
                      /\ imp' = [imp EXCEPT !.attempt = @ + 1]
                      /\ UNCHANGED outcome
                 ELSE /\ outcome' = [outcome EXCEPT ![imp.kind] = ImportOutcome(FALSE, dry_run)]
                      /\ pc' = NextPc(imp.kind)
                      /\ imp' = NoImp
    /\ UNCHANGED <<world, live, run, dry_run, state_resources, exit, prev>>

\* time.sleep(IMPORT_RETRY_DELAY), then the next iteration if the range has one.
RetrySleep ==
    /\ pc = "sleep"
    /\ trace' = Append(trace, Event("sleep", imp.kind, NoPair, "", IMPORT_RETRY_DELAY))
    /\ IF InRange(imp.attempt + 1)
       THEN /\ pc' = "import"
            /\ imp' = [imp EXCEPT !.attempt = @ + 1]
            /\ UNCHANGED outcome
       ELSE /\ outcome' = [outcome EXCEPT ![imp.kind] = ImportOutcome(FALSE, dry_run)]
            /\ pc' = NextPc(imp.kind)
            /\ imp' = NoImp
    /\ last' = ""
    /\ UNCHANGED <<store, world, live, run, dry_run, state_resources, exit, prev>>

\* The summary banner and return 0.
Finish ==
    /\ pc = "summary"
    /\ pc' = "done"
    /\ exit' = 0
    /\ last' = ""
    /\ UNCHANGED <<store, world, live, run, dry_run, state_resources, outcome, trace, imp, prev>>

Next ==
    \/ Start
    \/ GetStateResources
    \/ WarmUp
    \/ SyncLogGroup
    \/ SyncManagement
    \/ SyncOrgAdmin
    \/ SyncAudit
    \/ SyncAuditProbe
    \/ ImportAttempt
    \/ RetrySleep
    \/ Finish

\* One run of the script.
Spec == Init /\ [][Next]_vars

NextRerun ==
    \/ Next
    \/ Rerun

\* Up to MaxRuns runs, one after the other, over the same inputs.
SpecRerun == Init /\ [][NextRerun]_vars

-----------------------------------------------------------------------------
(* verify-macie.py: inputs and check functions *)

\* The tfvars files verify-macie is run on: those of TfvarsFiles that the
\* discovery wrote in full, and one written without management_account_id.
VerifyTfvars ==
    {f \in TfvarsFiles : f.file # "ok" \/ (f.resource_prefix # "" /\ f.deployment_name # "")}
    \cup
    {[file |-> "ok", resource_prefix |-> "acme", deployment_name |-> "prod",
      management_account_id |-> "", audit_account_id |-> AuditAccountId]}

ServiceAccessResponses == {"enabled", "not_enabled", "ClientError", "OtherException"}
OrgConfigResponses == {"autoEnable_on", "autoEnable_off", "ClientError", "OtherException"}
ExportResponses == {"s3Destination", "no_destination", "ClientError", "OtherException"}
DiscoveryResponses == {"ENABLED", "DISABLED", "NotEnabledError", "ClientError", "OtherException"}
UpdateResponses == {"updated", "ClientError", "OtherException"}
JobsResponses == {"items", "no_items", "ClientError", "OtherException"}

\* load_tfvars: {} when the file is absent.
load_tfvars(file) ==
    IF file.file = "absent"
    THEN [management_account_id |-> "", audit_account_id |-> ""]
    ELSE [management_account_id |-> file.management_account_id,
          audit_account_id |-> file.audit_account_id]

\* assume_role: a session, or None on a ClientError; any other exception
\* leaves the function.
assume_role(response) ==
    CASE response = "Credentials" -> "Session"
      [] response = "ClientError" -> "None"
      [] OTHER -> "Raise"

\* The credentials a check's client is built with: session is None -> boto3.client.
ClientOf(session) == IF session = "Session" THEN "assumed" ELSE "default"

check_service_access(response) ==
    [enabled |-> response = "enabled", error |-> response = "ClientError"]

check_delegated_admin(response, expected_admin) ==
    LET actual == CASE response = "Admins_audit" -> AuditAccountId
                    [] response = "Admins_other" -> OtherAccountId
                    [] OTHER -> ""
    IN  [correct |-> actual # "" /\ actual = expected_admin,
         actual_admin |-> actual,
         error |-> response = "ClientError"]

check_macie_enabled(response) ==
    [enabled |-> response = "ENABLED", error |-> response = "ClientError"]

check_org_config(response) ==
    [configured |-> response \in {"autoEnable_on", "autoEnable_off"},
     auto_enable |-> response = "autoEnable_on",
     error |-> response = "ClientError"]

check_classification_export(response) ==
    [configured |-> response = "s3Destination", error |-> response = "ClientError"]

check_automated_discovery(response) ==
    [enabled |-> response = "ENABLED",
     error |-> response \in {"ClientError", "NotEnabledError"}]

\* enable_automated_discovery after its query: return at once, or go on to
\* the update call.
EnableReturnsEarly(response) == response \in {"ENABLED", "ClientError"}

\* enable_automated_discovery; update is "" when the update call was not made.
enable_automated_discovery(response, update) ==
    [enabled |-> response = "ENABLED" \/ update = "updated",
     already_enabled |-> response = "ENABLED",
     error |-> response = "ClientError" \/ update = "ClientError"]

check_classification_jobs(response) ==
    [found |-> response = "items", error |-> response = "ClientError"]

-----------------------------------------------------------------------------
(* verify-macie.py: the branches of main(), as the level main() prints and
   the entry it appends to issues or to warnings ("" for none) *)

Branch(level, issue, warning) == [level |-> level, issue |-> issue, warning |-> warning]

ServiceAccessBranch(result) ==
    IF result.error THEN Branch("ERROR", "Service access check failed", "")
    ELSE IF result.enabled THEN Branch("OK", "", "")
    ELSE Branch("ERROR", "Macie service access not enabled in Organizations", "")

DelegatedAdminBranch(result) ==
    IF result.error THEN Branch("ERROR", "Delegated admin check failed", "")
    ELSE IF result.correct THEN Branch("OK", "", "")
    ELSE IF result.actual_admin # ""
    THEN Branch("ERROR", "Wrong delegated admin: " \o result.actual_admin, "")
    ELSE Branch("ERROR", "No delegated admin configured", "")

MacieEnabledBranch(account_name, result) ==
    IF result.error THEN Branch("ERROR", account_name \o ": Macie check failed", "")
    ELSE IF result.enabled THEN Branch("OK", "", "")
    ELSE Branch("ERROR", account_name \o ": Macie not enabled", "")

OrgConfigBranch(result) ==
    IF result.error THEN Branch("ERROR", "Org configuration check failed", "")
    ELSE IF result.configured /\ result.auto_enable THEN Branch("OK", "", "")
    ELSE IF result.configured THEN Branch("WARNING", "", "Org auto-enable is disabled")
    ELSE Branch("ERROR", "Organization configuration not found", "")

ExportBranch(result) ==
    IF result.error THEN Branch("ERROR", "Classification export check failed", "")
    ELSE IF result.configured THEN Branch("OK", "", "")
    ELSE Branch("ERROR", "Classification export not configured", "")

CheckDiscoveryBranch(result) ==
    IF result.error THEN Branch("ERROR", "Automated discovery check failed", "")
    ELSE IF result.enabled THEN Branch("OK", "", "")
    ELSE Branch("INFO", "", "")

EnableDiscoveryBranch(result) ==
    IF result.error THEN Branch("ERROR", "Automated discovery enablement failed", "")
    ELSE IF result.already_enabled THEN Branch("OK", "", "")
    ELSE IF result.enabled THEN Branch("OK", "", "")
    ELSE Branch("WARNING", "", "Automated sensitive data discovery not enabled")

JobsBranch(result) ==
    IF result.error THEN Branch("ERROR", "Classification job check failed", "")
    ELSE IF result.found THEN Branch("OK", "", "")
    ELSE Branch("WARNING", "", "ccoe-weekly classification job not found")

DiscoveryStep_alwaysEnable(dry) == "enable_discovery"

\* Check 6: the read-only check in a dry run, else the enablement.
DiscoveryStep(dry) == IF dry THEN "check_discovery" ELSE "enable_discovery"

SummaryLine(iss, warn) ==
    IF iss = <<>> /\ warn = <<>> THEN "All checks passed"
    ELSE IF iss = <<>> THEN "complete with warnings"
    ELSE "complete with issues"

VerifyExit_warningsFail(iss, warn) == IF iss = <<>> /\ warn = <<>> THEN 0 ELSE 1

\* The three returns of the summary.
VerifyExit(iss, warn) ==
    IF iss = <<>> /\ warn = <<>> THEN 0
    ELSE IF iss = <<>> THEN 0
    ELSE 1

-----------------------------------------------------------------------------
(* verify-macie.py: steps of a run *)

\* A call of the cloud API by a check, with the credentials of its client.
Call(op, check, client) == Event(op, check, <<"", client>>, "", 0)

\* A check returned and main() took the branch b: its print and its append.
Checked(check, calls, b, next) ==
    /\ trace' = trace \o calls \o <<Event("print", check, NoPair, b.level, 0)>>
    /\ issues' = IF b.issue # "" THEN Append(issues, b.issue) ELSE issues
    /\ warnings' = IF b.warning # "" THEN Append(warnings, b.warning) ELSE warnings
    /\ pc' = next
    /\ exit' = exit

\* A call raised what its check does not catch: traceback, status 1.
Raised(calls) ==
    /\ trace' = trace \o calls
    /\ pc' = "crashed"
    /\ exit' = 1
    /\ UNCHANGED <<issues, warnings>>

\* main() up to the first check: parse_args, load_tfvars, the audit account id.
VerifyStart ==
    /\ prog = "verify"
    /\ pc = "idle"
    /\ \E d \in BOOLEAN : dry_run' = d
    /\ IF tfvars.file = "malformed"
       THEN pc' = "crashed" /\ exit' = 1
       ELSE IF load_tfvars(tfvars).audit_account_id = ""
       THEN pc' = "done" /\ exit' = 1
       ELSE pc' = "service_access" /\ exit' = -1
    /\ UNCHANGED <<verifyFrame, trace, verifyVars>>

\* Check 1
CheckServiceAccess ==
    /\ pc = "service_access"
    /\ \E r \in ServiceAccessResponses :
          LET calls == <<Call("list_aws_service_access_for_organization", "service_access",
                              "default")>>
          IN  IF r = "OtherException"
              THEN Raised(calls)
              ELSE Checked("service_access", calls,
                           ServiceAccessBranch(check_service_access(r)), "delegated_admin")
    /\ UNCHANGED <<verifyFrame, dry_run, audit_session>>

\* Check 2
CheckDelegatedAdmin ==
    /\ pc = "delegated_admin"
    /\ \E r \in DelegatedResponses :
          LET calls == <<Call("list_delegated_administrators", "delegated_admin", "default")>>
              result == check_delegated_admin(r, load_tfvars(tfvars).audit_account_id)
          IN  IF r = "OtherException"
              THEN Raised(calls)
              ELSE Checked("delegated_admin", calls, DelegatedAdminBranch(result),
                           "macie_management")
    /\ UNCHANGED <<verifyFrame, dry_run, audit_session>>

\* Check 3, the Management entry of accounts: skipped without an account id.
CheckMacieManagement ==
    /\ pc = "macie_management"
    /\ IF load_tfvars(tfvars).management_account_id = ""
       THEN /\ trace' = Append(trace, Event("print", "Management", NoPair, "SKIPPED", 0))
            /\ pc' = "macie_audit"
            /\ UNCHANGED <<issues, warnings, exit>>
       ELSE \E r \in MacieResponses :
              LET calls == <<Call("get_macie_session", "Management", ClientOf("None"))>>
              IN  IF r = "OtherException"
                  THEN Raised(calls)
                  ELSE Checked("Management", calls,
                               MacieEnabledBranch("Management", check_macie_enabled(r)),
                               "macie_audit")
    /\ UNCHANGED <<verifyFrame, dry_run, audit_session>>

\* Check 3, the Audit entry: session = assume_role(...), then the check with it.
CheckMacieAudit ==
    /\ pc = "macie_audit"
    /\ \E a \in StsResponses :
          LET session == assume_role(a)
              role == <<Event("assume_role", "Audit",
                              <<"", load_tfvars(tfvars).audit_account_id>>, a, 0)>>
          IN  IF session = "Raise"
              THEN Raised(role)
              ELSE \E r \in MacieResponses :
                     LET calls == role \o <<Call("get_macie_session", "Audit",
                                                 ClientOf(session))>>
                     IN  IF r = "OtherException"
                         THEN Raised(calls)
                         ELSE Checked("Audit", calls,
                                      MacieEnabledBranch("Audit", check_macie_enabled(r)),
                                      "org_config")
    /\ UNCHANGED <<verifyFrame, dry_run, audit_session>>

\* Check 4: audit_session = assume_role(...), then check_org_config with it.
CheckOrgConfig ==
    /\ pc = "org_config"
    /\ \E a \in StsResponses :
          LET session == assume_role(a)
              role == <<Event("assume_role", "org_config",
                              <<"", load_tfvars(tfvars).audit_account_id>>, a, 0)>>
          IN  IF session = "Raise"
              THEN Raised(role) /\ UNCHANGED audit_session
              ELSE /\ audit_session' = session
                   /\ \E r \in OrgConfigResponses :
                        LET calls == role \o <<Call("describe_organization_configuration",
                                                    "org_config", ClientOf(session))>>
                        IN  IF r = "OtherException"
                            THEN Raised(calls)
                            ELSE Checked("org_config", calls,
                                         OrgConfigBranch(check_org_config(r)), "export")
    /\ UNCHANGED <<verifyFrame, dry_run>>

\* Check 5, and the choice of check 6.
CheckClassificationExport ==
    /\ pc = "export"
    /\ \E r \in ExportResponses :
          LET calls == <<Call("get_classification_export_configuration", "export",
                              ClientOf(audit_session))>>
          IN  IF r = "OtherException"
              THEN Raised(calls)
              ELSE Checked("export", calls, ExportBranch(check_classification_export(r)),
                           DiscoveryStep(dry_run))
    /\ UNCHANGED <<verifyFrame, dry_run, audit_session>>

\* Check 6 in a dry run
CheckAutomatedDiscovery ==
    /\ pc = "check_discovery"
    /\ \E r \in DiscoveryResponses :
          LET calls == <<Call("get_automated_discovery_configuration", "discovery",
                              ClientOf(audit_session))>>
          IN  IF r = "OtherException"
              THEN Raised(calls)
              ELSE Checked("discovery", calls,
                           CheckDiscoveryBranch(check_automated_discovery(r)), "jobs")
    /\ UNCHANGED <<verifyFrame, dry_run, audit_session>>

\* Check 6 otherwise: the query and, unless it returns early, the update.
EnableAutomatedDiscovery ==
    /\ pc = "enable_discovery"
    /\ \E r \in DiscoveryResponses :
          LET get == <<Call("get_automated_discovery_configuration", "discovery",
                            ClientOf(audit_session))>>
          IN  IF r = "OtherException"
              THEN Raised(get)
              ELSE IF EnableReturnsEarly(r)
              THEN Checked("discovery", get,
                           EnableDiscoveryBranch(enable_automated_discovery(r, "")), "jobs")
              ELSE \E u \in UpdateResponses :
                     LET calls == get \o <<Call("update_automated_discovery_configuration",
                                                "discovery", ClientOf(audit_session))>>
                     IN  IF u = "OtherException"
                         THEN Raised(calls)
                         ELSE Checked("discovery", calls,
                                      EnableDiscoveryBranch(enable_automated_discovery(r, u)),
                                      "jobs")
    /\ UNCHANGED <<verifyFrame, dry_run, audit_session>>

\* Check 7
CheckClassificationJobs ==
    /\ pc = "jobs"
    /\ \E r \in JobsResponses :
          LET calls == <<Call("list_classification_jobs", "jobs", ClientOf(audit_session))>>
          IN  IF r = "OtherException"
              THEN Raised(calls)
              ELSE Checked("jobs", calls, JobsBranch(check_classification_jobs(r)),
                           "verify_summary")
    /\ UNCHANGED <<verifyFrame, dry_run, audit_session>>

\* The summary and the return of main().
VerifySummary ==
    /\ pc = "verify_summary"
    /\ trace' = Append(trace, Event("print", "summary", NoPair,
                                    SummaryLine(issues, warnings), 0))
    /\ exit' = VerifyExit(issues, warnings)
    /\ pc' = "done"
    /\ UNCHANGED <<verifyFrame, dry_run, verifyVars>>

InitVerify ==
    /\ prog = "verify"
    /\ tfvars \in VerifyTfvars
    /\ store = {}
    /\ config = "ok"
    /\ live = LiveUnknown
    /\ NotRun
    /\ NotRead

VerifyNext ==
    \/ VerifyStart
    \/ CheckServiceAccess
    \/ CheckDelegatedAdmin
    \/ CheckMacieManagement
    \/ CheckMacieAudit
    \/ CheckOrgConfig
    \/ CheckClassificationExport
    \/ CheckAutomatedDiscovery
    \/ EnableAutomatedDiscovery
    \/ CheckClassificationJobs
    \/ VerifySummary

\* One run of verify-macie.py.
SpecVerify == InitVerify /\ [][VerifyNext]_vars

-----------------------------------------------------------------------------
(* discover.py: inputs and functions *)

\* config.yaml as discover.py reads it; "" is a key that is absent (or empty).
ConfigYamls ==
    [resource_prefix : {"", "acme"}, primary_region : {"", "eu-west-1"},
     audit_account_id : {"", OtherAccountId}, deployment_name : {"prod"},
     tags : {"", "cfg"}]

IdentityResponses == {"Account", "ClientError", "OtherException"}
SsmResponses == {"Value", "ParameterNotFound", "ClientError", "OtherException"}
SessionResponses == {"ENABLED", "PAUSED", "ClientError", "OtherException"}
AutoDiscoveryResponses == {"ENABLED", "DISABLED", "ClientError", "OtherException"}
BucketResponses == {"exists", "404", "ClientError", "OtherException"}

DiscoverLiveUnknown ==
    [identity |-> Unknown, ssm |-> Unknown, delegated |-> Unknown, sts |-> Unknown,
     session |-> Unknown, org |-> Unknown, auto |-> Unknown, sts_s3 |-> Unknown,
     bucket |-> Unknown]

\* read_ssm_org_config: the parsed parameter, or {} on a ClientError.
read_ssm_org_config(response) ==
    IF response = "Value"
    THEN [primary_region |-> "us-west-2", audit_account_id |-> AuditAccountId, tags |-> "ssm"]
    ELSE [primary_region |-> "", audit_account_id |-> "", tags |-> ""]

\* The merge of main(): x.get(k) or y.get(k, default) for the region and the
\* audit account, ssm.get("tags", config.get("tags", {})) for the tags.
MergedRegion(cfg, ssm_config) ==
    IF cfg.primary_region # "" THEN cfg.primary_region
    ELSE IF ssm_config.primary_region # "" THEN ssm_config.primary_region
    ELSE "us-east-1"

MergedAudit(cfg, ssm_config) ==
    IF cfg.audit_account_id # "" THEN cfg.audit_account_id ELSE ssm_config.audit_account_id

MergedTags(cfg, ssm_config) ==
    IF ssm_config.tags # "" THEN ssm_config.tags ELSE cfg.tags

PrefixMissing_never(cfg) == FALSE

\* if not resource_prefix
PrefixMissing(cfg) == cfg.resource_prefix = ""

\* admins[0]["Id"] of list_delegated_administrators, "" without an admin.
FirstAdmin(response) ==
    CASE response = "Admins_audit" -> AuditAccountId
      [] response = "Admins_other" -> OtherAccountId
      [] OTHER -> ""

\* The tfvars dict main() builds.
TfvarsDict(cfg, ssm_config, bucket_exists) ==
    [primary_region |-> MergedRegion(cfg, ssm_config),
     resource_prefix |-> cfg.resource_prefix,
     deployment_name |-> IF cfg.deployment_name # "" THEN cfg.deployment_name
                         ELSE "portfolio-aws-org-macie",
     management_account_id |-> ManagementAccountId,
     audit_account_id |-> MergedAudit(cfg, ssm_config),
     audit_account_role |-> "OrganizationAccountAccessRole",
     access_logs_bucket_exists |-> bucket_exists,
     bucket_exclusion_tag_value |-> "true",
     custom_tags |-> MergedTags(cfg, ssm_config)]

\* JSON text of a string, a boolean, a tags object.
JsonString(str) == "\"" \o str \o "\""
JsonBool(b) == IF b THEN "true" ELSE "false"
JsonTags(tags) == IF tags = "" THEN "{}" ELSE "{\n    \"source\": " \o JsonString(tags) \o "\n  }"

\* json.dumps(obj, indent=2) of an object given as its (key, value text) items.
RECURSIVE JsonMembers(_)
JsonMembers(items) ==
    IF items = <<>> THEN ""
    ELSE "\n  " \o JsonString(items[1][1]) \o ": " \o items[1][2]
         \o (IF Len(items) > 1 THEN "," ELSE "\n") \o JsonMembers(Tail(items))

json_dumps(items) == "{" \o JsonMembers(items) \o "}"

DiscoveryItems(d) ==
    << <<"macie_org_exists", JsonBool(d.macie_org_exists)>>,
       <<"macie_delegated_admin", JsonString(d.macie_delegated_admin)>>,
       <<"macie_auto_enable", JsonBool(d.macie_auto_enable)>>,
       <<"macie_automated_discovery", JsonBool(d.macie_automated_discovery)>> >>

TfvarsItems(t) ==
    << <<"primary_region", JsonString(t.primary_region)>>,
       <<"resource_prefix", JsonString(t.resource_prefix)>>,
       <<"deployment_name", JsonString(t.deployment_name)>>,
       <<"management_account_id", JsonString(t.management_account_id)>>,
       <<"audit_account_id", JsonString(t.audit_account_id)>>,
       <<"audit_account_role", JsonString(t.audit_account_role)>>,
       <<"access_logs_bucket_exists", JsonBool(t.access_logs_bucket_exists)>>,
       <<"bucket_exclusion_tag_value", JsonString(t.bucket_exclusion_tag_value)>>,
       <<"custom_tags", JsonTags(t.custom_tags)>> >>

\* The dry-run branch: what it prints under each of the two paths.
PrintedFiles(d, t) ==
    [discovery_json |-> json_dumps(DiscoveryItems(d)),
     tfvars_json |-> json_dumps(TfvarsItems(t))]

WrittenFiles_discoveryOnly(old, d, t) ==
    [discovery_json |-> json_dumps(DiscoveryItems(d)), tfvars_json |-> old.tfvars_json]

\* The other branch: the two files after the two json.dump calls.
WrittenFiles(old, d, t) ==
    [discovery_json |-> json_dumps(DiscoveryItems(d)),
     tfvars_json |-> json_dumps(TfvarsItems(t))]

-----------------------------------------------------------------------------
(* discover.py: steps of a run *)

\* What the run has in ssm_config once read_ssm_org_config has returned.
SsmConfig == read_ssm_org_config(live.ssm)

\* A call of the cloud API by discover.py.
DiscoverCall(op) == Event(op, "discover", NoPair, "", 0)

\* The step goes on to next with the result dict d.
Goes(op, d, next) ==
    /\ trace' = Append(trace, DiscoverCall(op))
    /\ discovery' = d
    /\ pc' = next
    /\ UNCHANGED <<run, dry_run, exit, files, printed>>

\* The call raised what nothing in discover.py catches.
Escapes(op) ==
    /\ trace' = Append(trace, DiscoverCall(op))
    /\ pc' = "crashed"
    /\ exit' = 1
    /\ UNCHANGED <<run, dry_run, discovery, files, printed>>

\* main() up to the caller identity: parse_args, load_config, resource_prefix.
DiscoverBegin ==
    /\ run' = run + 1
    /\ \E d \in BOOLEAN : dry_run' = d
    /\ trace' = <<>>
    /\ discovery' = NoDiscovery
    /\ IF config = "missing" \/ PrefixMissing(config_yaml)
       THEN pc' = "done" /\ exit' = 1
       ELSE pc' = "identity" /\ exit' = -1
    /\ UNCHANGED <<discoverFrame, live, files, printed>>

DiscoverStart ==
    /\ prog = "discover"
    /\ pc = "idle"
    /\ DiscoverBegin

\* discover.py is run again, on the same inputs, after a run that completed.
DiscoverRerun ==
    /\ prog = "discover"
    /\ pc = "done"
    /\ exit = 0
    /\ run < MaxRuns
    /\ DiscoverBegin

\* sts.get_caller_identity(), outside any try.
GetCallerIdentity ==
    /\ pc = "identity"
    /\ \E r \in IdentityResponses :
          /\ Answer("identity", IdentityResponses, r)
          /\ IF r = "Account"
             THEN Goes("get_caller_identity", discovery, "ssm")
             ELSE Escapes("get_caller_identity")
    /\ UNCHANGED discoverFrame

\* read_ssm_org_config, the merge, and the audit account id it must give.
ReadSsmOrgConfig ==
    /\ pc = "ssm"
    /\ \E r \in SsmResponses :
          /\ Answer("ssm", SsmResponses, r)
          /\ IF r = "OtherException"
             THEN Escapes("get_parameter")
             ELSE IF MergedAudit(config_yaml, read_ssm_org_config(r)) = ""
             THEN /\ trace' = Append(trace, DiscoverCall("get_parameter"))
                  /\ pc' = "done"
                  /\ exit' = 1
                  /\ UNCHANGED <<run, dry_run, discovery, files, printed>>
             ELSE Goes("get_parameter", discovery, "list_admins")
    /\ UNCHANGED discoverFrame

\* discover_macie_org_config: the delegated administrators.
ListDelegatedAdmins ==
    /\ pc = "list_admins"
    /\ \E r \in DelegatedResponses :
          /\ Answer("delegated", DelegatedResponses, r)
          /\ LET op == "list_delegated_administrators"
                 admin == FirstAdmin(r)
             IN  IF r = "OtherException" THEN Escapes(op)
                 ELSE IF admin = "" THEN Goes(op, discovery, "assume_s3")
                 ELSE Goes(op, [discovery EXCEPT !.macie_delegated_admin = admin,
                                                 !.macie_org_exists = TRUE],
                           IF admin = MergedAudit(config_yaml, SsmConfig)
                           THEN "assume_audit" ELSE "assume_s3")
    /\ UNCHANGED discoverFrame

\* discover_macie_org_config: assume_role into the audit account.
AssumeAudit ==
    /\ pc = "assume_audit"
    /\ \E r \in StsResponses :
          /\ Answer("sts", StsResponses, r)
          /\ CASE r = "Credentials" -> Goes("assume_role", discovery, "macie_session")
               [] r = "ClientError" -> Goes("assume_role", discovery, "assume_s3")
               [] OTHER -> Escapes("assume_role")
    /\ UNCHANGED discoverFrame

\* discover_macie_org_config: get_macie_session in the audit account.
GetMacieSession ==
    /\ pc = "macie_session"
    /\ \E r \in SessionResponses :
          /\ Answer("session", SessionResponses, r)
          /\ CASE r = "OtherException" -> Escapes("get_macie_session")
               [] r = "ClientError" -> Goes("get_macie_session", discovery, "assume_s3")
               [] OTHER -> Goes("get_macie_session", discovery, "org_configuration")
    /\ UNCHANGED discoverFrame

\* discover_macie_org_config: describe_organization_configuration.
DescribeOrgConfiguration ==
    /\ pc = "org_configuration"
    /\ \E r \in OrgConfigResponses :
          /\ Answer("org", OrgConfigResponses, r)
          /\ LET op == "describe_organization_configuration"
             IN  CASE r = "OtherException" -> Escapes(op)
                   [] r = "ClientError" -> Goes(op, discovery, "automated_discovery")
                   [] OTHER -> Goes(op, [discovery EXCEPT !.macie_auto_enable =
                                                             (r = "autoEnable_on")],
                                    "automated_discovery")
    /\ UNCHANGED discoverFrame

\* discover_macie_org_config: get_automated_discovery_configuration.
GetAutomatedDiscovery ==
    /\ pc = "automated_discovery"
    /\ \E r \in AutoDiscoveryResponses :
          /\ Answer("auto", AutoDiscoveryResponses, r)
          /\ LET op == "get_automated_discovery_configuration"
             IN  CASE r = "OtherException" -> Escapes(op)
                   [] r = "ClientError" -> Goes(op, discovery, "assume_s3")
                   [] OTHER -> Goes(op, [discovery EXCEPT !.macie_automated_discovery =
                                                             (r = "ENABLED")],
                                    "assume_s3")
    /\ UNCHANGED discoverFrame

\* The access logs bucket: assume_role into the audit account.
AssumeForBucket ==
    /\ pc = "assume_s3"
    /\ \E r \in StsResponses :
          /\ Answer("sts_s3", StsResponses, r)
          /\ CASE r = "Credentials" -> Goes("assume_role", discovery, "head_bucket")
               [] r = "ClientError" -> Goes("assume_role", discovery, "output")
               [] OTHER -> Escapes("assume_role")
    /\ UNCHANGED discoverFrame

\* The access logs bucket: head_bucket.
HeadBucket ==
    /\ pc = "head_bucket"
    /\ \E r \in BucketResponses :
          /\ Answer("bucket", BucketResponses, r)
          /\ IF r = "OtherException"
             THEN Escapes("head_bucket")
             ELSE Goes("head_bucket", discovery, "output")
    /\ UNCHANGED discoverFrame

\* access_logs_bucket_exists when the run builds its output.
BucketExists == live.sts_s3 = "Credentials" /\ live.bucket = "exists"

\* The output: printed in a dry run, written otherwise; return 0.
WriteOutput ==
    /\ pc = "output"
    /\ LET t == TfvarsDict(config_yaml, SsmConfig, BucketExists)
       IN  IF dry_run
           THEN /\ printed' = PrintedFiles(discovery, t)
                /\ trace' = trace \o <<Event("print", "discover", <<"discovery.json", "">>, "", 0),
                                       Event("print", "discover",
                                             <<"bootstrap.auto.tfvars.json", "">>, "", 0)>>
                /\ UNCHANGED files
           ELSE /\ files' = WrittenFiles(files, discovery, t)
                /\ trace' = trace \o <<Event("write", "discover", <<"discovery.json", "">>, "", 0),
                                       Event("write", "discover",
                                             <<"bootstrap.auto.tfvars.json", "">>, "", 0)>>
                /\ UNCHANGED printed
    /\ pc' = "done"
    /\ exit' = 0
    /\ UNCHANGED <<discoverFrame, live, run, dry_run, discovery>>

InitDiscover ==
    /\ prog = "discover"
    /\ config \in {"ok", "missing"}
    /\ config_yaml \in IF config = "ok" THEN ConfigYamls ELSE {NoYaml}
    /\ argv = <<>>
    /\ tfvars \in {f \in TfvarsFiles : f.file = "absent"}
    /\ store = {}
    /\ live = DiscoverLiveUnknown
    /\ accounts = {}
    /\ members = <<>>
    /\ NotRun

DiscoverNext ==
    \/ DiscoverStart
    \/ GetCallerIdentity
    \/ ReadSsmOrgConfig
    \/ ListDelegatedAdmins
    \/ AssumeAudit
    \/ GetMacieSession
    \/ DescribeOrgConfiguration
    \/ GetAutomatedDiscovery
    \/ AssumeForBucket
    \/ HeadBucket
    \/ WriteOutput

\* One run of discover.py.
SpecDiscover == InitDiscover /\ [][DiscoverNext]_vars

DiscoverNextRerun ==
    \/ DiscoverNext
    \/ DiscoverRerun

\* Up to MaxRuns runs of discover.py over the same inputs and the same
\* cloud configuration.
SpecDiscoverRerun == InitDiscover /\ [][DiscoverNextRerun]_vars

-----------------------------------------------------------------------------
(* enroll-macie-members.py *)

\* The accounts of the organization, in the order list_accounts gives them.
OrgAccounts == <<ManagementAccountId, AuditAccountId, OtherAccountId>>

AccountStatuses == {"ACTIVE", "SUSPENDED"}

\* relationshipStatus of an account list_members knows; the delegated
\* administrator is no member of its own.
MemberStatuses == {"Enabled", "Paused"}
MemberCandidates == {ManagementAccountId, OtherAccountId}

AccountsResponses == {"Accounts", "ClientError", "OtherException"}
MembersResponses == {"members", "NotEnabledError", "ClientError", "OtherException"}
CreateResponses == {"created", "ConflictException", "ClientError", "OtherException"}

\* --audit-account-id
audit_account_arg == AuditAccountId

\* A function restricted to a part of its domain.
Restrict(f, S) == [x \in S |-> f[x]]

\* get_organization_accounts: the ACTIVE accounts, in order.
get_organization_accounts(accts) ==
    SelectSeq(OrgAccounts, LAMBDA a : accts[a] = "ACTIVE")

\* member_accounts: all_accounts without the audit account.
member_accounts(all_accounts) ==
    SelectSeq(all_accounts, LAMBDA a : a # audit_account_arg)

NeedsEnrollment_anyStatus(candidates, existing) == candidates

\* The categorisation: the accounts with no status in existing_members.
NeedsEnrollment(candidates, existing) ==
    SelectSeq(candidates, LAMBDA a : a \notin DOMAIN existing)

\* create_member: True when created or ConflictException, else False.
create_member(response) == response \in {"created", "ConflictException"}

EnrollCall(op, account_id, res) == Event(op, "enroll", <<"", account_id>>, res, 0)

\* sys.exit(main() or 0) after a return, sys.exit(1), or a traceback.
Ends(op, res, how, status) ==
    /\ trace' = Append(trace, EnrollCall(op, "", res))
    /\ pc' = how
    /\ exit' = status
    /\ UNCHANGED <<existing_members, needs_enrollment>>

Continues(op, next) ==
    /\ trace' = Append(trace, EnrollCall(op, "", ""))
    /\ pc' = next
    /\ UNCHANGED <<exit, existing_members, needs_enrollment>>

\* parse_args: dry_run = not args.apply.
EnrollStart ==
    /\ prog = "enroll"
    /\ pc = "idle"
    /\ \E apply \in BOOLEAN : dry_run' = ~apply
    /\ pc' = "caller_identity"
    /\ UNCHANGED <<enrollFrame, trace, exit, existing_members, needs_enrollment>>

\* sts.get_caller_identity(), outside any try.
EnrollCallerIdentity ==
    /\ pc = "caller_identity"
    /\ \E r \in IdentityResponses :
          IF r = "Account"
          THEN Continues("get_caller_identity", "delegated_check")
          ELSE Ends("get_caller_identity", r, "crashed", 1)
    /\ UNCHANGED <<enrollFrame, dry_run>>

\* get_macie_delegated_admin and the comparison with --audit-account-id.
EnrollDelegatedAdmin ==
    /\ pc = "delegated_check"
    /\ \E r \in DelegatedResponses :
          LET op == "list_delegated_administrators"
          IN  IF r = "OtherException" THEN Ends(op, r, "crashed", 1)
              ELSE IF FirstAdmin(r) # audit_account_arg THEN Ends(op, r, "done", 1)
              ELSE Continues(op, "assume_audit_role")
    /\ UNCHANGED <<enrollFrame, dry_run>>

\* assume_audit_role: sys.exit(1) on a ClientError.
EnrollAssumeAuditRole ==
    /\ pc = "assume_audit_role"
    /\ \E r \in StsResponses :
          CASE r = "Credentials" -> Continues("assume_role", "list_accounts")
            [] r = "ClientError" -> Ends("assume_role", r, "done", 1)
            [] OTHER -> Ends("assume_role", r, "crashed", 1)
    /\ UNCHANGED <<enrollFrame, dry_run>>

\* get_organization_accounts, which catches nothing.
EnrollListAccounts ==
    /\ pc = "list_accounts"
    /\ \E r \in AccountsResponses :
          IF r = "Accounts"
          THEN Continues("list_accounts", "list_members")
          ELSE Ends("list_accounts", r, "crashed", 1)
    /\ UNCHANGED <<enrollFrame, dry_run>>

\* get_macie_members, the categorisation, and the two returns before the
\* enrollment loop.  On a ClientError that is not "not enabled" the function
\* returns the members of the pages read before the error.
EnrollListMembers ==
    /\ pc = "list_members"
    /\ \E r \in MembersResponses :
          LET op == "list_members"
              candidates == member_accounts(get_organization_accounts(accounts))
          IN  CASE r = "OtherException" -> Ends(op, r, "crashed", 1)
                [] r = "NotEnabledError" -> Ends(op, r, "done", 1)
                [] OTHER ->
                     \E read \in SUBSET DOMAIN members :
                        /\ r = "members" => read = DOMAIN members
                        /\ existing_members' = Restrict(members, read)
                        /\ needs_enrollment' = NeedsEnrollment(candidates, existing_members')
                        /\ trace' = Append(trace, EnrollCall(op, "", r))
                        /\ IF needs_enrollment' = <<>> \/ dry_run
                           THEN pc' = "done" /\ exit' = 0
                           ELSE pc' = "enrolling" /\ exit' = exit
    /\ UNCHANGED <<enrollFrame, dry_run>>

\* One iteration of the enrollment loop; after the last, the summary and
\* the return.
EnrollCreateMember ==
    /\ pc = "enrolling"
    /\ LET n == Cardinality(OpIndices("create_member"))
           account_id == needs_enrollment[n + 1]
       IN  \E r \in CreateResponses :
              /\ trace' = Append(trace, EnrollCall("create_member", account_id, r))
              /\ IF r = "OtherException"
                 THEN pc' = "crashed" /\ exit' = 1
                 ELSE IF n + 1 < Len(needs_enrollment)
                 THEN pc' = "enrolling" /\ exit' = exit
                 ELSE pc' = "done" /\ exit' = 0
    /\ UNCHANGED <<enrollFrame, dry_run, existing_members, needs_enrollment>>

InitEnroll ==
    /\ prog = "enroll"
    /\ accounts \in [{OrgAccounts[i] : i \in 1..Len(OrgAccounts)} -> AccountStatuses]
    /\ members \in UNION {[S -> MemberStatuses] : S \in SUBSET MemberCandidates}
    /\ tfvars \in {f \in TfvarsFiles : f.file = "absent"}
    /\ config = "ok"
    /\ config_yaml = NoYaml
    /\ argv = <<>>
    /\ store = {}
    /\ live = LiveUnknown
    /\ NotRun

EnrollNext ==
    \/ EnrollStart
    \/ EnrollCallerIdentity
    \/ EnrollDelegatedAdmin
    \/ EnrollAssumeAuditRole
    \/ EnrollListAccounts
    \/ EnrollListMembers
    \/ EnrollCreateMember

\* One run of enroll-macie-members.py.
SpecEnroll == InitEnroll /\ [][EnrollNext]_vars

-----------------------------------------------------------------------------
(* The four scripts *)

InitScripts ==
    \/ Init
    \/ InitVerify
    \/ InitDiscover
    \/ InitEnroll

NextScripts ==
    \/ Next
    \/ VerifyNext
    \/ DiscoverNext
    \/ EnrollNext

\* One run of one of the scripts.
SpecScripts == InitScripts /\ [][NextScripts]_vars

-----------------------------------------------------------------------------
(* cloudwatch_logger.py: lines and functions *)

\* Largest number of lines read from stdin before its end.
MaxLines == 12

\* Largest number of irregular events of a run: lines that are not plain
\* text, seconds that pass while the relay waits for a line, and exceptions
\* that reach main().
MaxIrregular == 2

\* A line of stdin is the sequence of its pieces, each a string: a piece is
\* a run of text, an ANSI colour sequence, the sentinel prefix or the
\* newline.  Run(n) is the piece of n characters "x".
STREAM_SENTINEL == "###STREAM:"

\* The pieces ANSI_ESCAPE_RE matches.
ANSI_ESCAPE_RE == {"ESC[31m", "ESC[0m"}

Run(n) == "x{" \o ToString(n) \o "}"

RunLengths == {300000, 262000}

\* Number of characters of a piece; every piece is ASCII, so of bytes too.
Chars(piece) ==
    IF piece \in {Run(n) : n \in RunLengths}
    THEN CHOOSE n \in RunLengths : piece = Run(n)
    ELSE Len(piece)

RECURSIVE len(_)
len(s) == IF s = <<>> THEN 0 ELSE Chars(Head(s)) + len(Tail(s))

\* line.rstrip("\n")
RECURSIVE rstrip(_)
rstrip(line) ==
    IF line # <<>> /\ line[Len(line)] = "\n"
    THEN rstrip(SubSeq(line, 1, Len(line) - 1))
    ELSE line

startswith(s, prefix) == s # <<>> /\ Head(s) = prefix

removeprefix(s, prefix) == IF startswith(s, prefix) THEN Tail(s) ELSE s

\* ANSI_ESCAPE_RE.sub("", stripped)
sub(stripped) == SelectSeq(stripped, LAMBDA piece : piece \notin ANSI_ESCAPE_RE)

\* s[:n]
RECURSIVE slice(_, _)
slice(s, n) ==
    IF s = <<>> \/ n = 0 THEN <<>>
    ELSE IF Chars(Head(s)) <= n
         THEN <<Head(s)>> \o slice(Tail(s), n - Chars(Head(s)))
         ELSE <<Run(n)>>

\* The pieces of a string, as the one string they spell.
RECURSIVE Join(_)
Join(s) == IF s = <<>> THEN "" ELSE Head(s) \o Join(Tail(s))

\* The message main() makes of a stripped line that is no sentinel: colours
\* removed, cut when longer than an event may be.
Message(stripped) ==
    LET message == sub(stripped)
    IN  IF len(message) > 262144
        THEN slice(message, 262000) \o <<"... [truncated]">>
        ELSE message

LogEvent(message, time) == [timestamp |-> time * 1000, message |-> Join(message)]

ShouldFlush_onlyWhenLate(b, bytes, time, flushed) == (time - flushed) >= 1

\* The flush condition after an append.
ShouldFlush(b, bytes, time, flushed) ==
    Len(b) >= 10 \/ bytes >= 800000 \/ (time - flushed) >= 1

suppress_nothing(r) == FALSE

\* contextlib.suppress(Exception): what _flush and _create_stream swallow.
suppress(r) == r = "Exception"

\* A CloudWatch call of _flush or _create_stream did not return normally
\* and the helper let it through.
Raises(r) == r # "ok" /\ ~suppress(r)

\* What a CloudWatch Logs call may do: succeed, fail with any Exception,
\* or be interrupted by SIGINT.
CloudWatchReplies == {"ok", "Exception", "KeyboardInterrupt"}

\* The command lines entrypoint.sh or a user may give.
Argvs ==
    {<<"cloudwatch_logger.py", "/deploy/macie", "bootstrap", "us-east-1">>,
     <<"cloudwatch_logger.py", "/deploy/macie">>}

StreamNames == {"discover"}

\* The k-th line of stdin when it is plain text: its number and a newline.
Plain(k) == <<ToString(k), "\n">>

PlainLines == {Plain(k) : k \in 1..(MaxLines + 1)}

\* The other lines the k-th read may return: coloured text, an empty line,
\* a colour reset alone, a line too long for one event, a stream switch.
Special(k) ==
    {<<"ESC[31m", ToString(k), "ESC[0m", "\n">>,
     <<"\n">>,
     <<"ESC[0m", "\n">>,
     <<Run(300000), "\n">>}
    \cup {<<STREAM_SENTINEL, s, "\n">> : s \in StreamNames}

-----------------------------------------------------------------------------
(* cloudwatch_logger.py: steps of a run *)

\* A readline of stdin or a call of CloudWatch Logs: res is "returned" for a
\* call that came back to main(), whether or not its failure was swallowed.
LogCall(op, stream, arg, res) == [op |-> op, stream |-> stream, arg |-> arg, res |-> res]

Seen(r) == IF Raises(r) THEN r ELSE "returned"

ReadIndices == {i \in DOMAIN trace : trace[i].op = "readline"}

\* The irregular events so far.
Irregular ==
    now + Cardinality({i \in DOMAIN trace :
                          \/ trace[i].res \in {"Exception", "KeyboardInterrupt"}
                          \/ /\ trace[i].res = "line"
                             /\ trace[i].arg \notin PlainLines})

\* The answers the run may still get: an exception that reaches main() is
\* an irregular event.
Allowed(answers, used) ==
    {r \in answers : Raises(r) => used < MaxIrregular}

\* main() up to the loop: the usage check, the client, the locals.
LoggerStart ==
    /\ prog = "logger"
    /\ pc = "idle"
    /\ IF Len(argv) # 4
       THEN /\ pc' = "done"
            /\ exit' = 1
            /\ UNCHANGED <<current_stream, last_flush>>
       ELSE \E client \in {"ok", "Exception"} :
              IF client = "ok"
              THEN /\ current_stream' = argv[3]
                   /\ last_flush' = now
                   /\ pc' = "read"
                   /\ exit' = exit
              ELSE /\ pc' = "crashed"
                   /\ exit' = 1
                   /\ UNCHANGED <<current_stream, last_flush>>
    /\ UNCHANGED <<loggerFrame, trace, batch, batch_bytes, now, reply>>

\* The loop ends: end of input, or KeyboardInterrupt, or another exception
\* before any call (a line that is not valid UTF-8 raises in readline, or, read
\* with surrogateescape, in message.encode at line 75); all of them lead to
\* the finally block.
LoopEnds(res, time) ==
    /\ trace' = Append(trace, LogCall("readline", "", <<>>, res))
    /\ pc' = "finally"
    /\ reply' = <<>>
    /\ UNCHANGED <<batch, batch_bytes, last_flush, current_stream>>

\* Lines 59-68: a sentinel line.  r1 answers the flush of a pending batch,
\* r2 the creation of the new stream.
SwitchStream(line, time, r1, r2) ==
    LET new_stream == Join(removeprefix(rstrip(line), STREAM_SENTINEL))
        flushes == batch # <<>>
        raised1 == flushes /\ Raises(r1)
        raised2 == ~raised1 /\ Raises(r2)
    IN  /\ trace' = trace \o <<LogCall("readline", "", line, "line")>>
                \o (IF flushes
                    THEN <<LogCall("put_log_events", current_stream, batch, Seen(r1))>>
                    ELSE <<>>)
                \o (IF raised1
                    THEN <<>>
                    ELSE <<LogCall("create_log_stream", new_stream, <<>>, Seen(r2))>>)
        /\ reply' = (IF flushes THEN <<r1>> ELSE <<>>) \o (IF raised1 THEN <<>> ELSE <<r2>>)
        /\ batch' = IF flushes /\ ~raised1 THEN <<>> ELSE batch
        /\ batch_bytes' = IF flushes /\ ~raised1 THEN 0 ELSE batch_bytes
        /\ last_flush' = IF flushes /\ ~raised1 THEN time ELSE last_flush
        /\ current_stream' = IF raised1 \/ raised2 THEN current_stream ELSE new_stream
        /\ pc' = IF raised1 \/ raised2 THEN "finally" ELSE "read"

\* Lines 70-92: any other line.  r answers the flush, when there is one.
Enqueue(line, time, r) ==
    LET message == Message(rstrip(line))
        appended == Append(batch, LogEvent(message, time))
        bytes == batch_bytes + len(message) + 26
        flushes == ShouldFlush(appended, bytes, time, last_flush)
    IN  IF message = <<>>
        THEN /\ trace' = Append(trace, LogCall("readline", "", line, "line"))
             /\ reply' = <<>>
             /\ pc' = "read"
             /\ UNCHANGED <<batch, batch_bytes, last_flush, current_stream>>
        ELSE /\ trace' = trace \o <<LogCall("readline", "", line, "line")>>
                     \o (IF flushes
                         THEN <<LogCall("put_log_events", current_stream, appended, Seen(r))>>
                         ELSE <<>>)
             /\ reply' = IF flushes THEN <<r>> ELSE <<>>
             /\ batch' = IF flushes /\ ~Raises(r) THEN <<>> ELSE appended
             /\ batch_bytes' = IF flushes /\ ~Raises(r) THEN 0 ELSE bytes
             /\ last_flush' = IF flushes /\ ~Raises(r) THEN time ELSE last_flush
             /\ pc' = IF flushes /\ Raises(r) THEN "finally" ELSE "read"
             /\ current_stream' = current_stream

\* One iteration of the loop of main(): the readline, during which a second
\* may pass, and what main() does with the line.
ReadLine ==
    /\ pc = "read"
    /\ prog = "logger"
    /\ \E tick \in {0, 1} :
        LET irregular == Irregular + tick
            k == Cardinality(ReadIndices) + 1
        IN
         /\ irregular <= MaxIrregular
         /\ now' = now + tick
         /\ \/ \E res \in {"eof"} \cup (IF irregular < MaxIrregular
                                        THEN {"Exception", "KeyboardInterrupt"}
                                        ELSE {}) : LoopEnds(res, now')
            \/ /\ k <= MaxLines
               /\ \E line \in {Plain(k)} \cup (IF irregular < MaxIrregular
                                                THEN Special(k) ELSE {}) :
                    LET used == irregular + (IF line = Plain(k) THEN 0 ELSE 1)
                    IN  \E r1 \in Allowed(CloudWatchReplies, used) :
                          IF startswith(rstrip(line), STREAM_SENTINEL)
                          THEN \E r2 \in Allowed(CloudWatchReplies,
                                                  used + (IF Raises(r1) THEN 1 ELSE 0)) :
                                 SwitchStream(line, now', r1, r2)
                          ELSE Enqueue(line, now', r1)
    /\ exit' = exit
    /\ UNCHANGED loggerFrame

\* The finally block of main(), line 98: one flush of a pending batch.  A
\* KeyboardInterrupt it lets through ends the process as SIGINT does.
FinalFlush ==
    /\ pc = "finally"
    /\ IF batch # <<>>
       THEN \E r \in Allowed(CloudWatchReplies, Irregular) :
              /\ trace' = Append(trace,
                                 LogCall("put_log_events", current_stream, batch, Seen(r)))
              /\ reply' = <<r>>
              /\ pc' = IF Raises(r) THEN "crashed" ELSE "done"
              /\ exit' = IF ~Raises(r) THEN 0
                         ELSE IF r = "KeyboardInterrupt" THEN 130 ELSE 1
       ELSE /\ trace' = trace
            /\ reply' = <<>>
            /\ pc' = "done"
            /\ exit' = 0
    /\ UNCHANGED <<loggerFrame, batch, batch_bytes, last_flush, current_stream, now>>

InitLogger ==
    /\ prog = "logger"
    /\ argv \in Argvs
    /\ tfvars \in {f \in TfvarsFiles : f.file = "absent"}
    /\ config = "ok"
    /\ config_yaml = NoYaml
    /\ accounts = {}
    /\ members = <<>>
    /\ store = {}
    /\ live = LiveUnknown
    /\ NotRun

LoggerNext ==
    \/ LoggerStart
    \/ ReadLine
    \/ FinalFlush

\* One run of cloudwatch_logger.py.
SpecLogger == InitLogger /\ [][LoggerNext]_vars

-----------------------------------------------------------------------------
(* Properties *)

Finished == pc \in {"done", "crashed"}

\* The import_resource call of a kind, as the calls it made: imports and sleeps.
CallTrace(kind) ==
    SelectSeq(trace, LAMBDA e : e.kind = kind /\ e.op \in {"import", "sleep"})

ImportsOf(address) ==
    {i \in 1..Len(trace) : trace[i].op \in {"import", "would_import"}
                           /\ trace[i].address = address}

EventsOf(kind) == {i \in 1..Len(trace) : trace[i].kind = kind}

AuditDependent == {"org_admin", "audit"}

C2_DryRunNoWrite ==
    /\ [](dry_run =>
            /\ OpIndices("import") = {}
            /\ OpIndices("plan") = {}
            /\ OpIndices("sleep") = {}
            /\ pc \notin {"warmup", "import", "sleep"}
            /\ \A k \in Kinds :
                  /\ outcome[k] # "ImportFailed"
                  /\ Indices("would_import", k) # {} => outcome[k] = "WouldImport")
    /\ [][dry_run' => store' = store]_vars

\* A dry run over an empty TrackedSet that ended after reporting an import.
C2_Witness ==
    /\ dry_run
    /\ pc = "done"
    /\ state_resources = {}
    /\ OpIndices("would_import") # {}
    /\ outcome["log_group"] = "WouldImport"

\* A dry run, then a run that is not a dry run, over the same input: the
\* dry run changed nothing, and both runs listed the same TrackedSet.
SameInputPair ==
    /\ Finished
    /\ prev.finished = "done"
    /\ prev.dry_run
    /\ ~dry_run
    /\ prev.state_resources = state_resources

\* C3 as stated: the pairs a dry run reports as would-import are the pairs a
\* run over the same input that is not a dry run actually imports.
C3_WouldEqualsImported == SameInputPair => prev.would = ImportedPairs

\* C3 amended: the pairs a dry run reports are the pairs for which the other
\* run invokes terraform import; the pairs actually imported are among them.
C3_WouldEqualsAttempted ==
    SameInputPair =>
        /\ prev.would = Pairs(trace, "import")
        /\ ImportedPairs \subseteq prev.would

\* A dry run reported an import, and the run after it over the same input
\* tried that import and failed, and imported another pair.
C3_Witness ==
    /\ SameInputPair
    /\ pc = "done"
    /\ <<LogGroupAddress, "/acme/deployments/prod">> \in prev.would
    /\ outcome["log_group"] = "ImportFailed"
    /\ outcome["management"] = "Imported"

\* C4: a call of import_resource invokes terraform import at most
\* IMPORT_RETRIES times, sleeps IMPORT_RETRY_DELAY seconds only between two
\* attempts, and a call whose attempts all failed without an already-managed
\* message made exactly IMPORT_RETRIES attempts, ended on an attempt and not
\* on a sleep, and is reported ImportFailed.
C4_RetryBound ==
    \A k \in Kinds :
        LET c == CallTrace(k)
            attempts == {i \in 1..Len(c) : c[i].op = "import"}
        IN  /\ Cardinality(attempts) <= IMPORT_RETRIES
            /\ \A i \in 1..Len(c) :
                   IF i % 2 = 1
                   THEN c[i].op = "import"
                   ELSE c[i].op = "sleep" /\ c[i].secs = IMPORT_RETRY_DELAY
            /\ (outcome[k] # "pending" /\ attempts # {}
                  /\ \A i \in attempts : c[i].res = "fail") =>
                   /\ outcome[k] = "ImportFailed"
                   /\ Cardinality(attempts) = IMPORT_RETRIES
                   /\ c[Len(c)].op = "import"
            /\ outcome[k] = "ImportFailed" =>
                   /\ Cardinality(attempts) = IMPORT_RETRIES
                   /\ \A i \in attempts : c[i].res = "fail"

\* An import call that failed on every attempt has returned.
C4_Witness ==
    /\ outcome["management"] = "ImportFailed"
    /\ Len(CallTrace("management")) = 2 * IMPORT_RETRIES - 1
    /\ pc = "org_admin"

\* C5: an attempt that fails with the already-managed message makes the call
\* return success (the kind is reported Imported), on whichever attempt it
\* happens, and it is the last thing the call does: no attempt, no sleep after it.
C5_AlreadyManagedIsImported ==
    \A k \in Kinds :
        LET c == CallTrace(k)
        IN  \A i \in 1..Len(c) :
                (c[i].op = "import" /\ c[i].res = "already") =>
                    /\ outcome[k] = "Imported"
                    /\ i = Len(c)

\* The already-managed message came on the second attempt.
C5_Witness ==
    LET c == CallTrace("audit")
    IN  /\ Len(c) = 3
        /\ c[1].res = "fail"
        /\ c[3].res = "already"
        /\ outcome["audit"] = "Imported"
        /\ pc = "done"

\* C6 as stated: a run that reaches its end exits nonzero exactly when some
\* kind ended ImportFailed.
C6_ExitIffImportFailed ==
    pc = "done" => ((exit # 0) <=> (\E k \in Kinds : outcome[k] = "ImportFailed"))

ListEvents == OpIndices("state_list")

\* The live query of a kind reported its resource present.
FoundLive(kind) ==
    \E i \in EventsOf(kind) :
        \/ trace[i].op = "get_macie_session" /\ trace[i].res = "ENABLED"
        \/ /\ trace[i].op = "list_delegated_administrators"
           /\ DelegatedProbe(trace[i].res, get_account_ids_from_tfvars(tfvars).audit) = "Found"

C8_NoAuditNoCall ==
    get_account_ids_from_tfvars(tfvars).audit = "" =>
        \A k \in AuditDependent :
            /\ EventsOf(k) = {}
            /\ outcome[k] \in {"pending", "NotApplicable"}

\* The run ended with both kinds not applicable, neither of them tracked.
C8_Witness ==
    /\ tfvars.file = "ok"
    /\ tfvars.audit_account_id = ""
    /\ pc = "done"
    /\ state_resources \cap {OrgAdminAddress, AuditAddress} = {}
    /\ outcome["org_admin"] = "NotApplicable"
    /\ outcome["audit"] = "NotApplicable"

MacieKinds == {"management", "audit"}

C11_KindFailureNeverAborts ==
    config = "ok" => pc # "crashed"

PlanEvents == OpIndices("plan")

\* C12: a run makes at most one warm-up plan, only with an empty TrackedSet
\* and not in a dry run, right after the listing and so before the step of any
\* kind; whatever the plan returns, the run goes on to the first kind.
C12_WarmUpOnce ==
    /\ [](/\ Cardinality(PlanEvents) <= 1
          /\ \A i \in PlanEvents :
                /\ state_resources = {}
                /\ ~dry_run
                /\ i = 2
                /\ trace[1].op = "state_list"
                /\ \A k \in Kinds : \A j \in EventsOf(k) : i < j)
    /\ [][pc = "warmup" => pc' = "log_group"]_vars

\* The plan failed and the run still imported the log group and went on.
C12_Witness ==
    /\ \E i \in PlanEvents : trace[i].res = "fail"
    /\ outcome["log_group"] = "Imported"
    /\ outcome["management"] = "NotFound"
    /\ pc = "done"

\* C13: an import call whose first terraform import succeeds makes no other
\* call: one import command for the kind and no sleep, the kind is reported
\* Imported and its address is in the Terraform state.
C13_FirstAttemptImported ==
    \A k \in Kinds :
        LET c == CallTrace(k)
        IN  (Len(c) >= 1 /\ c[1].res = "ok") =>
                /\ Len(c) = 1
                /\ Cardinality(Indices("import", k)) = 1
                /\ outcome[k] = "Imported"
                /\ tf_address(k) \in store

\* Empty state, the log group imported at the first attempt, run finished.
C13_Witness ==
    /\ pc = "done"
    /\ state_resources = {}
    /\ outcome["log_group"] = "Imported"
    /\ Len(CallTrace("log_group")) = 1
    /\ CallTrace("log_group")[1].res = "ok"
    /\ CallTrace("log_group")[1].id = "/acme/deployments/prod"
    /\ ~dry_run

\* C19 as stated: whenever assume_role does not give credentials, the broker
\* returns its failure value: the audit kind is skipped and the run does not
\* end on an exception.
C19_BrokerFailureIsValue ==
    \A i \in Indices("assume_role", "audit") :
        trace[i].res # "Credentials" =>
            /\ outcome["audit"] = "BrokerSkip"
            /\ pc # "crashed"

\* The command the step just taken ran was the import of this call.
LastImport(k) ==
    /\ trace # <<>>
    /\ trace[Len(trace)].op = "import"
    /\ trace[Len(trace)].kind = k

\* C20: a terraform command that times out is a failed call.  A timed-out
\* listing gives the empty TrackedSet and the run goes on; a timed-out import
\* is one of the at most IMPORT_RETRIES attempts: before the last attempt the
\* call goes on to the retry sleep, at the last attempt the call returns and
\* the kind is reported ImportFailed; the address is not added to the state.
C20_TimeoutFailsClosed ==
    last = "timeout" =>
        /\ trace # <<>>
        /\ trace[Len(trace)].res = "fail"
        /\ pc # "crashed"
        /\ trace[Len(trace)].op = "state_list" =>
              state_resources = {} /\ pc \in {"warmup", "log_group"}
        /\ trace[Len(trace)].op = "plan" => pc = "log_group"
        /\ \A k \in Kinds : LastImport(k) =>
              LET n == Cardinality(Indices("import", k))
              IN  /\ n <= IMPORT_RETRIES
                  /\ n < IMPORT_RETRIES => pc = "sleep" /\ outcome[k] = "pending"
                  /\ n = IMPORT_RETRIES =>
                        pc = NextPc(k) /\ outcome[k] = "ImportFailed"
                  /\ tf_address(k) \in store => tf_address(k) \in state_resources
                                                 \/ trace[1].res = "fail"

\* The last attempt of the management import timed out: ImportFailed.
C20_Witness ==
    /\ last = "timeout"
    /\ LastImport("management")
    /\ Cardinality(Indices("import", "management")) = IMPORT_RETRIES
    /\ outcome["management"] = "ImportFailed"
    /\ pc = "org_admin"
    /\ \E i \in ListEvents : trace[i].res = "ok"

\* The levels main() of verify-macie.py printed for its checks.
Printed(level) == {i \in OpIndices("print") : trace[i].res = level}

\* The run of verify-macie.py went through its checks to the summary.
Verified == prog = "verify" /\ pc = "done" /\ Indices("print", "summary") # {}

ReadOnlyCalls ==
    {"list_aws_service_access_for_organization", "list_delegated_administrators",
     "assume_role", "get_macie_session", "describe_organization_configuration",
     "get_classification_export_configuration", "get_automated_discovery_configuration",
     "list_classification_jobs"}

\* C14: at every point of a run of verify-macie.py the issues list has one
\* entry per check that printed ERROR and the warnings list one entry per
\* check that printed WARNING (so a WARNING adds nothing to issues); a run
\* that reaches its summary exits 1 when issues is non-empty and 0 when it is
\* empty, with or without warnings.
C14_ExitIffIssues ==
    prog = "verify" =>
        /\ Len(issues) = Cardinality(Printed("ERROR"))
        /\ Len(warnings) = Cardinality(Printed("WARNING"))
        /\ Verified => /\ exit \in {0, 1}
                       /\ (exit # 0) <=> (issues # <<>>)

\* A run that ended with two warnings and no issue: status 0.
C14_Witness ==
    /\ Verified
    /\ exit = 0
    /\ issues = <<>>
    /\ Len(warnings) = 2
    /\ ~dry_run

\* C15: a dry run of verify-macie.py calls only read queries (and the
\* assume_role of the audit session): it never calls
\* update_automated_discovery_configuration, also when automated discovery is
\* found not enabled.
C15_DryRunReadOnly ==
    (prog = "verify" /\ dry_run) =>
        /\ OpIndices("update_automated_discovery_configuration") = {}
        /\ \A i \in 1..Len(trace) : trace[i].op \in ReadOnlyCalls \cup {"print"}

\* A dry run found automated discovery not enabled and only reported it.
C15_Witness ==
    /\ Verified
    /\ dry_run
    /\ OpIndices("get_automated_discovery_configuration") # {}
    /\ \E i \in Indices("print", "discovery") : trace[i].res = "INFO"

\* A file is there.
Written(file) == file # "absent"

\* C18: no step of a dry run of discover.py changes discovery.json or
\* bootstrap.auto.tfvars.json; a run without --dry-run that completes has
\* written both, never one alone; and over the same config.yaml and the same
\* answers of the cloud, the two files hold exactly the two texts a dry run
\* prints.
C18_DryRunPrintsWhatRunWrites ==
    /\ [](prog = "discover" =>
            /\ Written(files.discovery_json) <=> Written(files.tfvars_json)
            /\ (pc = "done" /\ exit = 0 /\ ~dry_run) =>
                   Written(files.discovery_json) /\ Written(files.tfvars_json)
            /\ (printed # NoFiles /\ files # NoFiles) => files = printed)
    /\ [][(prog = "discover" /\ dry_run') => files' = files]_vars

\* A dry run, then a run that wrote: the organization has a delegated admin
\* with auto-enable on and the access logs bucket exists.
C18_Witness ==
    /\ prog = "discover"
    /\ run = 2
    /\ pc = "done"
    /\ ~dry_run
    /\ printed # NoFiles
    /\ files = printed
    /\ discovery.macie_auto_enable
    /\ BucketExists
    /\ OpIndices("write") # {}

\* The accounts create_member was called for, one entry per call.
CreateCalls == SelectSeq(trace, LAMBDA e : e.op = "create_member")

\* The active accounts of the organization that are not the audit account and
\* have no Macie membership status.
Unenrolled ==
    {a \in DOMAIN accounts :
        accounts[a] = "ACTIVE" /\ a # audit_account_arg /\ a \notin DOMAIN members}

\* C17 as stated, with the membership as it is in Macie: without --apply create_member is never called; with --apply
\* it is called at most once per account and only for active accounts that
\* are not the audit account and have no membership status, and a run that
\* went through its enrollment loop has called it for each of them.
C17_CreateMemberOnlyForUnenrolled ==
    prog = "enroll" =>
        /\ dry_run => CreateCalls = <<>>
        /\ \A i \in 1..Len(CreateCalls) :
              /\ CreateCalls[i].id \in Unenrolled
              /\ \A j \in 1..Len(CreateCalls) : CreateCalls[j].id = CreateCalls[i].id => i = j
        /\ (pc = "done" /\ exit = 0 /\ ~dry_run) =>
              Unenrolled = {CreateCalls[i].id : i \in 1..Len(CreateCalls)}

\* C17: without --apply create_member is never called; with --apply it is
\* called at most once per account and only for active accounts that are not
\* the audit account and have no status in existing_members, the listing the
\* run obtained (all members, or those of the pages read before list_members
\* failed); a run that went through its enrollment loop has called it for
\* each of these accounts.
C17_AsListed ==
    prog = "enroll" =>
        /\ dry_run => CreateCalls = <<>>
        /\ \A i \in 1..Len(CreateCalls) :
              /\ accounts[CreateCalls[i].id] = "ACTIVE"
              /\ CreateCalls[i].id # audit_account_arg
              /\ CreateCalls[i].id \notin DOMAIN existing_members
              /\ \A j \in 1..Len(CreateCalls) : CreateCalls[j].id = CreateCalls[i].id => i = j
        /\ (pc = "done" /\ exit = 0 /\ ~dry_run) =>
              {a \in DOMAIN accounts : accounts[a] = "ACTIVE" /\ a # audit_account_arg
                                       /\ a \notin DOMAIN existing_members}
                = {CreateCalls[i].id : i \in 1..Len(CreateCalls)}

\* With --apply, the listing failed before its first page: both member
\* accounts were called, one of them already Enabled in Macie.
C17_Witness ==
    /\ prog = "enroll"
    /\ pc = "done"
    /\ exit = 0
    /\ ~dry_run
    /\ \E i \in OpIndices("list_members") : trace[i].res = "ClientError"
    /\ Len(CreateCalls) = 2
    /\ CreateCalls[1].id \in DOMAIN members
    /\ CreateCalls[1].res = "ConflictException"
    /\ CreateCalls[2].id \in Unenrolled

\* A required input of the script that runs is missing: the config file of
\* state_sync, the audit account id of verify-macie, the config file, the
\* resource_prefix or (once SSM has answered) the audit account id of discover.
MissingInput ==
    \/ prog = "state_sync" /\ config = "missing"
    \/ prog = "verify" /\ tfvars.file # "malformed"
                       /\ load_tfvars(tfvars).audit_account_id = ""
    \/ prog = "discover" /\ config = "missing"
    \/ prog = "discover" /\ config = "ok" /\ config_yaml.resource_prefix = ""
    \/ prog = "discover" /\ config = "ok" /\ config_yaml.resource_prefix # ""
                         /\ live.ssm \notin {Unknown, "OtherException"}
                         /\ MergedAudit(config_yaml, SsmConfig) = ""

\* The two calls by which discover.py gathers its configuration.
ConfigReads == {"get_caller_identity", "get_parameter"}

\* C16: a run with a required input missing has ended with a nonzero status
\* as soon as the input is found missing; it has listed, planned and imported
\* nothing, has queried neither Macie nor Organizations nor the bucket, has
\* assumed no role and has written and printed no output file.  The only
\* calls it may have made are the caller identity and the SSM parameter that
\* discover.py reads to find the audit account id.
C16_MissingInputStopsEarly ==
    (MissingInput /\ pc # "idle") =>
        /\ pc \in {"done", "crashed"}
        /\ exit \notin {0, -1}
        /\ \A i \in 1..Len(trace) : trace[i].op \in ConfigReads
        /\ prog # "discover" => trace = <<>>
        /\ config_yaml.resource_prefix = "" => trace = <<>>
        /\ files = NoFiles
        /\ printed = NoFiles
        /\ state_resources = {}
        /\ \A k \in Kinds : outcome[k] = "pending"
        /\ issues = <<>> /\ warnings = <<>>

\* discover.py found no audit account id in config.yaml nor in SSM.
C16_Witness ==
    /\ prog = "discover"
    /\ MissingInput
    /\ config_yaml.resource_prefix # ""
    /\ live.ssm = "ParameterNotFound"
    /\ pc = "done"
    /\ exit = 1
    /\ Len(trace) = 2

\* The relay has left the loop of main().
LoopLeft ==
    /\ prog = "logger"
    /\ \/ pc = "finally"
       \/ pc \in {"done", "crashed"} /\ trace # <<>>

\* The events that end the loop: the end of input, an exception of readline,
\* a KeyboardInterrupt in a CloudWatch call.
LoopEnders ==
    {i \in DOMAIN trace :
        \/ trace[i].op = "readline" /\ trace[i].res # "line"
        \/ trace[i].op # "readline" /\ trace[i].res = "KeyboardInterrupt"}

\* The calls of a step answered, none was interrupted, and one failed.
FailedOnly(replies) ==
    /\ \E i \in DOMAIN replies : replies[i] = "Exception"
    /\ \A i \in DOMAIN replies : replies[i] \in {"ok", "Exception"}

\* What the trace holds after its i-th event.
After(i) == SubSeq(trace, i + 1, Len(trace))

\* C21: the log relay is best-effort.  A step in which put_log_events or
\* create_log_stream fails (and no call is interrupted) leaves the relay where
\* the same step without failure leaves it: reading the next line when in the
\* loop, exited with status 0 when in the finally block; the loop is left
\* only at the end of input, at an exception of readline or at a
\* KeyboardInterrupt; and once the loop is left the relay makes exactly one
\* more call, put_log_events of the pending batch to the current stream, when
\* that batch is not empty, and none when it is empty.
C21_BestEffort ==
    /\ [][FailedOnly(reply') =>
            /\ pc = "read" => pc' = "read" /\ exit' = exit
            /\ pc = "finally" => pc' = "done" /\ exit' = 0]_vars
    /\ [](LoopLeft =>
            /\ LoopEnders # {}
            /\ LET end == CHOOSE i \in LoopEnders : \A j \in LoopEnders : i <= j
               IN  IF pc = "finally" \/ batch = <<>>
                   THEN After(end) = <<>>
                   ELSE /\ Len(After(end)) = 1
                        /\ After(end)[1].op = "put_log_events"
                        /\ After(end)[1].stream = current_stream
                        /\ After(end)[1].arg = batch)

\* The relay read to the end of input with failing calls on the way, and the
\* flush of the finally block failed too: it exited with status 0.
C21_Witness ==
    /\ prog = "logger"
    /\ pc = "done"
    /\ exit = 0
    /\ reply = <<"Exception">>
    /\ batch # <<>>
    /\ trace[Len(trace)].op = "put_log_events"
    /\ \E i \in DOMAIN trace : trace[i].op = "readline" /\ trace[i].res = "eof"
    /\ \E i \in DOMAIN trace : trace[i].op = "create_log_stream"

\* The place of a trace event in the order the claim gives: the calls of
\* main() itself first, then the kinds.
Place(kind) ==
    CASE kind = "log_group" -> 1
      [] kind = "management" -> 2
      [] kind = "org_admin" -> 3
      [] kind = "audit" -> 4
      [] OTHER -> 0

\* C22: a state_sync run that found its config file processes the kinds one
\* after the other in the order log destination, management-account
\* enablement, organization delegation, audit-account enablement (the calls
\* in the trace never go back to an earlier kind); an address gets at most
\* one import_resource call, that is one would-import report or at most
\* IMPORT_RETRIES + 1 terraform import attempts; and a run that has ended
\* has ended after the last kind, with every kind processed.
C22_KindsInOrderOnce ==
    (prog = "state_sync" /\ config = "ok") =>
       /\ \A i, j \in DOMAIN trace :
             i < j => Place(trace[i].kind) <= Place(trace[j].kind)
       /\ \A k \in Kinds :
             /\ Cardinality(Indices("would_import", k)) <= 1
             /\ Cardinality(Indices("import", k)) <= IMPORT_RETRIES + 1
             /\ Indices("would_import", k) = {} \/ Indices("import", k) = {}
       /\ Finished => pc = "done" /\ \A k \in Kinds : outcome[k] # "pending"

\* C23: the TrackedSet is read once, by the listing at the start of the run:
\* no later step of the run changes it, neither the warm-up, nor a probe, nor
\* an import attempt (successful or not, although a successful one changes
\* the Terraform state itself); and a kind is decided AlreadyTracked only
\* when its address is in that set.
C23_SnapshotUnchanged ==
    /\ [][pc \notin {"idle", "list"} => state_resources' = state_resources]_vars
    /\ [](\A k \in Kinds :
            outcome[k] = "AlreadyTracked" => tf_address(k) \in state_resources)

\* A run that listed the management address alone, imported the log group
\* at its second attempt (the Terraform state grew) and then decided the management kind against
\* the set it had listed.
C23_Witness ==
    /\ prog = "state_sync"
    /\ pc = "done"
    /\ state_resources = {ManagementAddress}
    /\ outcome["log_group"] = "Imported"
    /\ LogGroupAddress \in store
    /\ outcome["management"] = "AlreadyTracked"
    /\ \E i \in DOMAIN trace : trace[i].op = "import" /\ trace[i].res = "fail"

\* The i-th call of the trace follows a live query of its kind that reported
\* the resource present.
QueriedFound(i) ==
    \E j \in 1..(i - 1) :
        /\ trace[j].kind = trace[i].kind
        /\ \/ trace[j].op = "get_macie_session" /\ trace[j].res = "ENABLED"
           \/ /\ trace[j].op = "list_delegated_administrators"
              /\ get_account_ids_from_tfvars(tfvars).audit \in DelegatedAdmins(trace[j].res)

\* C24: for every kind, the log destination included, every terraform import
\* call (and every would-import report of a dry run) comes after a live query
\* of the same kind in the same run that reported the resource present.
C24_ImportOnlyAfterFound ==
    \A i \in DOMAIN trace :
        (prog = "state_sync" /\ trace[i].op \in {"import", "would_import"}) =>
            QueriedFound(i)

\* A line main() takes for a stream switch, and the stream it names.
IsSentinel(line) == line # <<>> /\ Head(line) = STREAM_SENTINEL

\* The first n events of the trace, read as C25 reads them.  stream is the
\* stream that is current: argv[2] until a sentinel line is read, then the one
\* the last sentinel line names.  unsent are stream and message of the lines
\* read that are to send (no sentinel, a message left) and not sent yet, in
\* input order.  ok says that every put_log_events so far sent between 1 and
\* 10 events, and exactly the first of the unsent lines at the time, each to
\* its stream; and that no stream was created while a line was unsent.
RECURSIVE Relayed(_)
Relayed(n) ==
    IF n = 0 THEN [stream |-> argv[3], unsent |-> <<>>, ok |-> TRUE]
    ELSE LET before == Relayed(n - 1)
             e == trace[n]
             sends == [k \in 1..Len(e.arg) |-> <<e.stream, e.arg[k].message>>]
         IN  CASE e.op = "readline" /\ e.res = "line" ->
                    IF IsSentinel(e.arg)
                    THEN [before EXCEPT !.stream = e.arg[2]]
                    ELSE IF Message(rstrip(e.arg)) = <<>>
                    THEN before
                    ELSE [before EXCEPT !.unsent =
                             Append(@, <<before.stream, Join(Message(rstrip(e.arg)))>>)]
               [] e.op = "put_log_events" ->
                    [before EXCEPT
                       !.ok = /\ @
                              /\ Len(sends) >= 1
                              /\ Len(sends) <= 10
                              /\ Len(sends) <= Len(before.unsent)
                              /\ sends = SubSeq(before.unsent, 1, Len(sends)),
                       !.unsent = SubSeq(@, Len(sends) + 1, Len(@))]
               [] e.op = "create_log_stream" ->
                    [before EXCEPT !.ok = @ /\ before.unsent = <<>>]
               [] OTHER -> before

\* The relay has exited.
Exited == prog = "logger" /\ pc \in {"done", "crashed"} /\ trace # <<>>

\* No event of the trace is an exception that reached main().
Undisturbed(results) == \A i \in DOMAIN trace : trace[i].res \notin results

\* What C25 says of a run so far: no line sent twice, out of order, to
\* another stream than its own, or in a batch of more than 10; no stream
\* created before the lines read earlier were sent; and, when the relay has
\* exited, the input read to its end and no line left unsent.
InOrderOnce ==
    LET relayed == Relayed(Len(trace))
    IN  /\ relayed.ok
        /\ Exited =>
              /\ \E i \in DOMAIN trace : trace[i].res = "eof"
              /\ relayed.unsent = <<>>

SsmFirst(ssm_value, config_value) ==
    IF ssm_value # "" THEN ssm_value ELSE config_value

\* C26: the bootstrap.auto.tfvars.json a completed discover run writes (or
\* prints, in a dry run) holds for primary_region, audit_account_id and the
\* tags the value of the SSM org-baseline configuration whenever SSM provides
\* one, and the value of config.yaml only otherwise (us-east-1 when neither
\* gives a region).
C26_SsmTakesPrecedence ==
    (prog = "discover" /\ pc = "done" /\ exit = 0) =>
        LET merged == TfvarsDict(config_yaml, SsmConfig, BucketExists)
            region == SsmFirst(SsmConfig.primary_region, config_yaml.primary_region)
            expected ==
                [merged EXCEPT
                   !.primary_region = IF region # "" THEN region ELSE "us-east-1",
                   !.audit_account_id = SsmFirst(SsmConfig.audit_account_id,
                                                 config_yaml.audit_account_id),
                   !.custom_tags = SsmFirst(SsmConfig.tags, config_yaml.tags)]
        IN  (IF dry_run THEN printed ELSE files).tfvars_json
                = json_dumps(TfvarsItems(expected))

\* The checks of verify-macie.py that are meant for the audit account.
AuditChecks == {"Audit", "org_config", "export", "discovery", "jobs"}

\* C27: every Macie call of a check meant for the audit account is made with
\* the credentials of a session assumed in the audit account, never with the
\* default credentials of the process; and once the role assumption of check
\* 4 has failed, update_automated_discovery_configuration is not called.
C27_AuditOnlyThroughSession ==
    prog = "verify" =>
        /\ \A i \in DOMAIN trace :
              (trace[i].kind \in AuditChecks /\ trace[i].op \notin {"assume_role", "print"}) =>
                  trace[i].id = "assumed"
        /\ audit_session = "None" =>
              \A i \in DOMAIN trace : trace[i].op # "update_automated_discovery_configuration"

=============================================================================
